---- MODULE Spec2Model ----
(***************************************************************************)
(* The lineage graph engine of lineage/lineage_graph.py as a state machine. *)
(* The state is one LineageGraph object: its configuration, the directed    *)
(* graph _lineage_graph (vertex set, edge set, per-vertex attributes) and   *)
(* the catalog of volume / update-time samples.  Strings are TLA+ strings;  *)
(* the sqllineage Table/Schema objects are records over strings.            *)
(* The steps of DataMonitoring.run of observability/data_monitoring.py are  *)
(* a second machine over their own variables.                              *)
(***************************************************************************)
EXTENDS Integers, Sequences, FiniteSets, TLC

VARIABLES
    show_isolated_nodes,    \* self._show_isolated_nodes
    profile_database_name,  \* self._profile_database_name
    profile_schema_name,    \* self._profile_schema_name (None when not configured)
    show_full_table_name,   \* self._show_full_table_name
    nodes,                  \* vertices of self._lineage_graph
    edges,                  \* edges of self._lineage_graph, pairs <<source, target>>
    attr,                   \* node attribute dicts: attr[n] = [title, color]
    catalog,                \* self.catalog: key -> [volume, update_times, last_html]
    n_queries,              \* how many log entries init_graph_from_query_list has consumed
    pc,                     \* "ingest", "filtered" or "drawn"
    last,                   \* the last operation applied, with its inputs; of an ingested
                            \* entry also the vertices it removed and added, and whether
                            \* the entry before it held the same query
    table_ref,              \* a sqllineage Table object a caller holds (NoTable: none yet)
    mon_pc,                 \* where DataMonitoring.run stands: "idle", "deps",
                            \* "configuration", "snapshot", "run", "alerts", "done"
    run_args,               \* the arguments of DataMonitoring.run
    dbt_package_exists,     \* what _dbt_package_exists() returns
    configuration_rows,     \* the rows of the three monitoring configuration tables of
                            \* the warehouse (MissingTable: the count query fails)
    slack_webhook,          \* config.get_slack_notification_webhook()
    alerts,                 \* ELEMENTARY_ALERTS: alert_id -> alert_sent
    calls                   \* the calls made on dbt_runner, the warehouse and Slack

config == <<show_isolated_nodes, profile_database_name, profile_schema_name,
            show_full_table_name>>

monitor_vars == <<mon_pc, run_args, dbt_package_exists, configuration_rows, slack_webhook,
                  alerts, calls>>

vars == <<show_isolated_nodes, profile_database_name, profile_schema_name,
          show_full_table_name, nodes, edges, attr, catalog, n_queries, pc, last,
          table_ref, mon_pc, run_args, dbt_package_exists, configuration_rows,
          slack_webhook, alerts, calls>>

(***************************************************************************)
(* Values                                                                  *)
(***************************************************************************)
None == "<None>"
Absent == "<absent>"
DefaultSchema == "<default>"

UPSTREAM_DIRECTION == "upstream"
DOWNSTREAM_DIRECTION == "downstream"
BOTH_DIRECTIONS == "both"
SELECTED_NODE_COLOR == "#0925C7"
SELECTED_NODE_TITLE == "Selected table<br/>"
ANOMALY_COLOR == "red"

(***************************************************************************)
(* Python string operations                                                *)
(***************************************************************************)
\* sub in s
Contains(sub, s) ==
    \E i \in 1..(Len(s) - Len(sub) + 1) : SubSeq(s, i, i + Len(sub) - 1) = sub

\* s.rsplit('.', 1)[-1]
RSplitLast(s) ==
    IF Contains(".", s)
    THEN LET dots == {i \in 1..Len(s) : SubSeq(s, i, i) = "."}
             k == CHOOSE i \in dots : \A j \in dots : j <= i
         IN SubSeq(s, k + 1, Len(s))
    ELSE s

\* s.rsplit('.', 1)[0], for s with a dot
RSplitFirst(s) ==
    LET dots == {i \in 1..Len(s) : SubSeq(s, i, i) = "."}
        k == CHOOSE i \in dots : \A j \in dots : j <= i
    IN SubSeq(s, 1, k - 1)

(***************************************************************************)
(* sqllineage Table / Schema, as _resolve_table_qualification uses them     *)
(***************************************************************************)
Table(schema, raw_name) == [schema |-> schema, raw_name |-> raw_name]

\* no Table object
NoTable == Table(None, None)

\* Table(name), as filter_on_table builds it from the selected table name
TableOf(name) ==
    IF Contains(".", name) THEN Table(RSplitFirst(name), RSplitLast(name))
    ELSE Table(DefaultSchema, name)

\* str(table)
TableStr(table) == table.schema \o "." \o table.raw_name

\* ResolveTableQualification without the test for a dot in the schema
ResolveTableQualificationPrefixesDotted(table, database_name, schema_name) ==
    IF table.schema = DefaultSchema
    THEN IF database_name # None /\ schema_name # None
         THEN [table EXCEPT !.schema = database_name \o "." \o schema_name]
         ELSE table
    ELSE IF database_name # None
         THEN [table EXCEPT !.schema = database_name \o "." \o table.schema]
         ELSE [table EXCEPT !.schema = DefaultSchema]

\* ResolveTableQualification that keeps a bare schema when the database is unknown
ResolveTableQualificationKeepsBare(table, database_name, schema_name) ==
    IF table.schema = DefaultSchema
    THEN IF database_name # None /\ schema_name # None
         THEN [table EXCEPT !.schema = database_name \o "." \o schema_name]
         ELSE table
    ELSE IF ~Contains(".", table.schema) /\ database_name # None
         THEN [table EXCEPT !.schema = database_name \o "." \o table.schema]
         ELSE table

\* _resolve_table_qualification: the table with its schema resolved
ResolveTableQualification(table, database_name, schema_name) ==
    IF table.schema = DefaultSchema
    THEN IF database_name # None /\ schema_name # None
         THEN [table EXCEPT !.schema = database_name \o "." \o schema_name]
         ELSE table
    ELSE IF ~Contains(".", table.schema)
         THEN IF database_name # None
              THEN [table EXCEPT !.schema = database_name \o "." \o table.schema]
              ELSE [table EXCEPT !.schema = DefaultSchema]
         ELSE table

\* _should_ignore_table
ShouldIgnoreTable(table) ==
    IF profile_schema_name # None
    THEN table.schema # (profile_database_name \o "." \o profile_schema_name)
    ELSE ~Contains(profile_database_name, table.schema)

\* _name_qualification: the node id, or None for an excluded table
NameQualification(table, database_name, schema_name) ==
    LET resolved == ResolveTableQualification(table, database_name, schema_name)
    IN IF ShouldIgnoreTable(resolved) THEN None
       ELSE IF show_full_table_name THEN TableStr(resolved)
       ELSE RSplitLast(TableStr(resolved))

(***************************************************************************)
(* QueryContext (lineage/query_context.py): the per-statement metadata      *)
(***************************************************************************)
QueryContext(database_name, schema_name, volume, time) ==
    [queried_database |-> database_name, queried_schema |-> schema_name,
     query_volume |-> volume, query_time |-> time]

\* query_context.query_time_to_str(query_context.query_time, fmt=...)
QueryTimeToStr(time) == "t" \o ToString(time)

\* query_context.to_html(): the rendering of the execution context
ToHtml(query_context) ==
    "<ctx " \o query_context.queried_database \o "." \o query_context.queried_schema
        \o " rows=" \o ToString(query_context.query_volume)
        \o " at=" \o QueryTimeToStr(query_context.query_time) \o ">"

(***************************************************************************)
(* networkx DiGraph primitives on the record                                *)
(*   g = [nodes, edges, attr, catalog]                                      *)
(***************************************************************************)
NoAttr == [title |-> Absent, color |-> Absent]

EmptyDict == [k \in {} |-> Absent]

EmptyGraph == [nodes |-> {}, edges |-> {}, attr |-> EmptyDict, catalog |-> EmptyDict]

\* G.successors(n), G.predecessors(n)
Successors(g, n) == {e[2] : e \in {d \in g.edges : d[1] = n}}
Predecessors(g, n) == {e[1] : e \in {d \in g.edges : d[2] = n}}

\* G.degree(n): in-degree plus out-degree, a self-loop counts twice
Degree(g, n) ==
    Cardinality({e \in g.edges : e[1] = n}) + Cardinality({e \in g.edges : e[2] = n})

\* NxRemoveNodes that forgets the incoming edges of the removed vertices
NxRemoveNodesOutEdgesOnly(g, ns) ==
    [g EXCEPT !.nodes = g.nodes \ ns,
              !.edges = {e \in g.edges : e[1] \notin ns},
              !.attr = [n \in g.nodes \ ns |-> g.attr[n]]]

\* G.remove_node(n) for every n in ns: the vertices, their attributes and incident edges
NxRemoveNodes(g, ns) ==
    [g EXCEPT !.nodes = g.nodes \ ns,
              !.edges = {e \in g.edges : e[1] \notin ns /\ e[2] \notin ns},
              !.attr = [n \in g.nodes \ ns |-> g.attr[n]]]

\* G.add_nodes_from(ns): new vertices get an empty attribute dict
NxAddNodes(g, ns) ==
    [g EXCEPT !.nodes = g.nodes \cup ns,
              !.attr = [n \in g.nodes \cup ns |-> IF n \in g.nodes THEN g.attr[n] ELSE NoAttr]]

\* NxAddNodeWithTitle that leaves the title of an existing vertex as it is
NxAddNodeKeepsTitle(g, n, title) ==
    LET h == NxAddNodes(g, {n})
    IN IF n \in g.nodes /\ g.attr[n].title # Absent THEN h
       ELSE [h EXCEPT !.attr = [h.attr EXCEPT ![n].title = title]]

\* G.add_node(n, title=title)
NxAddNodeWithTitle(g, n, title) ==
    LET h == NxAddNodes(g, {n})
    IN [h EXCEPT !.attr = [h.attr EXCEPT ![n].title = title]]

\* NxAddEdges that takes the symmetric difference with the edges instead of the union
NxAddEdgesToggle(g, es) ==
    [g EXCEPT !.nodes = g.nodes \cup {e[1] : e \in es} \cup {e[2] : e \in es},
              !.edges = (g.edges \ es) \cup (es \ g.edges),
              !.attr = [n \in g.nodes \cup {e[1] : e \in es} \cup {e[2] : e \in es} |->
                          IF n \in g.nodes THEN g.attr[n] ELSE [title |-> Absent, color |-> Absent]]]

\* G.add_edge(u, v) for every pair: endpoints are created when absent
NxAddEdges(g, es) ==
    LET h == NxAddNodes(g, {e[1] : e \in es} \cup {e[2] : e \in es})
    IN [h EXCEPT !.edges = h.edges \cup es]

\* the attribute dict d updated with the entries of dict u
AttrUpdate(d, u) ==
    [title |-> IF u.title # Absent THEN u.title ELSE d.title,
     color |-> IF u.color # Absent THEN u.color ELSE d.color]

\* NxRelabel that renames the vertex and leaves the edges on the old name
NxRelabelVertexOnly(g, old, new) ==
    IF new = old THEN g
    ELSE [g EXCEPT !.nodes = (g.nodes \ {old}) \cup {new},
                   !.attr = [n \in (g.nodes \ {old}) \cup {new} |->
                               IF n = new THEN g.attr[old] ELSE g.attr[n]]]

\* nx.relabel_nodes(G, {old: new}, copy=False), old a vertex of G: new gets old's
\* attributes (over its own, when new exists) and every edge of old, old is removed
NxRelabel(g, old, new) ==
    IF new = old THEN g
    ELSE LET R(n) == IF n = old THEN new ELSE n
             ns == (g.nodes \ {old}) \cup {new}
         IN [g EXCEPT !.nodes = ns,
                      !.edges = {<<R(e[1]), R(e[2])>> : e \in g.edges},
                      !.attr = [n \in ns |->
                                  IF n = new
                                  THEN AttrUpdate(IF new \in g.nodes THEN g.attr[new] ELSE NoAttr,
                                                  g.attr[old])
                                  ELSE g.attr[n]]]

\* a mapping without the keys ks
DictWithout(d, ks) == [k \in DOMAIN d \ ks |-> d[k]]

\* a mapping with d[key] = value
DictPut(d, key, value) == [k \in DOMAIN d \cup {key} |-> IF k = key THEN value ELSE d[k]]

(***************************************************************************)
(* LineageGraph: the structural edits                                      *)
(***************************************************************************)
\* AddNodeToCatalog that keeps the newest sample only
AddNodeToCatalogLatestOnly(g, node, query_context) ==
    [g EXCEPT !.catalog = DictPut(g.catalog, node,
        [volume |-> <<query_context.query_volume>>,
         update_times |-> <<QueryTimeToStr(query_context.query_time)>>,
         last_html |-> ToHtml(query_context)])]

\* _add_node_to_catalog: the defaultdict creates the entry on first use
AddNodeToCatalog(g, node, query_context) ==
    LET entry == IF node \in DOMAIN g.catalog THEN g.catalog[node]
                 ELSE [volume |-> <<>>, update_times |-> <<>>, last_html |-> None]
    IN [g EXCEPT !.catalog = DictPut(g.catalog, node,
            [volume |-> Append(entry.volume, query_context.query_volume),
             update_times |-> Append(entry.update_times,
                                     QueryTimeToStr(query_context.query_time)),
             last_html |-> ToHtml(query_context)])]

\* AddTargets that gives the targets their title and records no sample
RECURSIVE AddTargetsTitleOnly(_, _, _)
AddTargetsTitleOnly(g, targets, query_context) ==
    IF targets = {} THEN g
    ELSE LET t == CHOOSE x \in targets : TRUE
         IN AddTargetsTitleOnly(NxAddNodeWithTitle(g, t, ToHtml(query_context)),
                                targets \ {t}, query_context)

\* the loop "for target_node in targets: add_node(title=...); _add_node_to_catalog(...)"
RECURSIVE AddTargets(_, _, _)
AddTargets(g, targets, query_context) ==
    IF targets = {} THEN g
    ELSE LET t == CHOOSE x \in targets : TRUE
         IN AddTargets(AddNodeToCatalog(NxAddNodeWithTitle(g, t, ToHtml(query_context)),
                                        t, query_context),
                       targets \ {t}, query_context)

\* AddNodesAndEdges that does not discard None from the two sets
AddNodesAndEdgesKeepsNone(g, sources, targets, query_context) ==
    IF sources = {} /\ targets = {} THEN g
    ELSE IF targets = {}
         THEN IF show_isolated_nodes THEN NxAddNodes(g, sources) ELSE g
    ELSE IF sources = {}
         THEN IF show_isolated_nodes THEN AddTargets(g, targets, query_context) ELSE g
    ELSE NxAddEdges(AddTargets(NxAddNodes(g, sources), targets, query_context),
                    sources \X targets)

\* AddNodesAndEdges that draws the edges of one of the sources only
AddNodesAndEdgesOfOneSource(g, sources_in, targets_in, query_context) ==
    LET sources == sources_in \ {None}
        targets == targets_in \ {None}
    IN IF sources = {} /\ targets = {} THEN g
       ELSE IF targets = {}
            THEN IF show_isolated_nodes THEN NxAddNodes(g, sources) ELSE g
       ELSE IF sources = {}
            THEN IF show_isolated_nodes THEN AddTargets(g, targets, query_context) ELSE g
       ELSE NxAddEdges(AddTargets(NxAddNodes(g, sources), targets, query_context),
                       {CHOOSE s \in sources : TRUE} \X targets)

\* AddNodesAndEdges that adds targets without sources whatever show_isolated_nodes is
AddNodesAndEdgesShowsLoneTargets(g, sources_in, targets_in, query_context) ==
    LET sources == sources_in \ {None}
        targets == targets_in \ {None}
    IN IF sources = {} /\ targets = {} THEN g
       ELSE IF targets = {}
            THEN IF show_isolated_nodes THEN NxAddNodes(g, sources) ELSE g
       ELSE IF sources = {}
            THEN AddTargets(g, targets, query_context)
       ELSE NxAddEdges(AddTargets(NxAddNodes(g, sources), targets, query_context),
                       sources \X targets)

\* _add_nodes_and_edges
AddNodesAndEdges(g, sources_in, targets_in, query_context) ==
    LET sources == sources_in \ {None}
        targets == targets_in \ {None}
    IN IF sources = {} /\ targets = {} THEN g
       ELSE IF targets = {}
            THEN IF show_isolated_nodes THEN NxAddNodes(g, sources) ELSE g
       ELSE IF sources = {}
            THEN IF show_isolated_nodes THEN AddTargets(g, targets, query_context) ELSE g
       ELSE NxAddEdges(AddTargets(NxAddNodes(g, sources), targets, query_context),
                       sources \X targets)

\* RenameNode that relabels the vertex and leaves the catalog as it is
RenameNodeGraphOnly(g, old_node, new_node) ==
    IF old_node = None \/ new_node = None THEN g
    ELSE IF old_node \in g.nodes THEN NxRelabel(g, old_node, new_node)
    ELSE g

\* RenameNode that keeps the catalog entry the new name already has
RenameNodeKeepsEntryOfNew(g, old_node, new_node) ==
    IF old_node = None \/ new_node = None THEN g
    ELSE IF old_node \in g.nodes
         THEN LET h == NxRelabel(g, old_node, new_node)
              IN IF old_node \in DOMAIN g.catalog
                 THEN [h EXCEPT !.catalog =
                         IF new_node \in DOMAIN g.catalog
                         THEN DictWithout(g.catalog, {old_node})
                         ELSE DictPut(DictWithout(g.catalog, {old_node}),
                                      new_node, g.catalog[old_node])]
                 ELSE h
         ELSE g

\* RenameNode without the test for excluded names
RenameNodeUnchecked(g, old_node, new_node) ==
    IF old_node \in g.nodes
    THEN LET h == NxRelabel(g, old_node, new_node)
         IN IF old_node \in DOMAIN g.catalog
            THEN [h EXCEPT !.catalog = DictPut(DictWithout(g.catalog, {old_node}),
                                               new_node, g.catalog[old_node])]
            ELSE h
    ELSE g

\* _rename_node
RenameNode(g, old_node, new_node) ==
    IF old_node = None \/ new_node = None THEN g
    ELSE IF old_node \in g.nodes
         THEN LET h == NxRelabel(g, old_node, new_node)
              IN IF old_node \in DOMAIN g.catalog
                 THEN [h EXCEPT !.catalog = DictPut(DictWithout(g.catalog, {old_node}),
                                                    new_node, g.catalog[old_node])]
                 ELSE h
         ELSE g

\* IslandNodes that looks at the successors only
IslandNodesSuccessorsOnly(g, node) ==
    {n \in Successors(g, node) \ {node} :
        ~\E e \in g.edges : e[1] # node /\ e[2] # node /\ (e[1] = n \/ e[2] = n)}

\* IslandNodes that does not count self-loops as edges
IslandNodesIgnoringSelfLoops(g, node) ==
    {n \in (Successors(g, node) \cup Predecessors(g, node)) \ {node} :
        ~\E e \in g.edges : e[1] # node /\ e[2] # node /\ e[1] # e[2] /\ (e[1] = n \/ e[2] = n)}

\* the island check of _remove_node: the former neighbours left with degree 0.  The two
\* loops remove only vertices of degree 0, which changes no other degree, so the order
\* of the loops does not matter.
IslandNodes(g, node) ==
    LET h == NxRemoveNodes(g, {node})
    IN {n \in (Successors(g, node) \cup Predecessors(g, node)) \ {node} : Degree(h, n) = 0}

\* RemoveNode that deletes the catalog entry also of a name that is no vertex
RemoveNodeForgetsAlways(g, node) ==
    IF node # None /\ node \in g.nodes
    THEN LET h == NxRemoveNodes(g, {node})
             k == IF ~show_isolated_nodes THEN NxRemoveNodes(h, IslandNodes(g, node)) ELSE h
         IN [k EXCEPT !.catalog = DictWithout(g.catalog, {node})]
    ELSE [g EXCEPT !.catalog = DictWithout(g.catalog, {node})]

\* _remove_node
RemoveNode(g, node) ==
    IF node # None /\ node \in g.nodes
    THEN LET h == NxRemoveNodes(g, {node})
             k == IF ~show_isolated_nodes THEN NxRemoveNodes(h, IslandNodes(g, node)) ELSE h
         IN [k EXCEPT !.catalog = DictWithout(g.catalog, {node})]
    ELSE g

(***************************************************************************)
(* A statement is one LineageResult: drop and rename are sequences (the     *)
(* order in which the loops of _update_lineage_graph visit the sets), read,  *)
(* intermediate and write are sets of tables.                               *)
(***************************************************************************)
Statement(drop, rename, read, intermediate, write) ==
    [drop |-> drop, rename |-> rename, read |-> read, intermediate |-> intermediate,
     write |-> write, raises |-> FALSE]

\* a statement on which LineageAnalyzer().analyze raises SQLLineageException
FailingStatement == [Statement(<<>>, <<>>, {}, {}, {}) EXCEPT !.raises = TRUE]

RECURSIVE RemoveNodes(_, _, _)
RemoveNodes(g, dropped_tables, qc) ==
    IF dropped_tables = <<>> THEN g
    ELSE RemoveNodes(RemoveNode(g, NameQualification(Head(dropped_tables),
                                                     qc.queried_database, qc.queried_schema)),
                     Tail(dropped_tables), qc)

RECURSIVE RenameNodes(_, _, _)
RenameNodes(g, renamed_tables, qc) ==
    IF renamed_tables = <<>> THEN g
    ELSE LET pair == Head(renamed_tables)
         IN RenameNodes(RenameNode(g,
                            NameQualification(pair[1], qc.queried_database, qc.queried_schema),
                            NameQualification(pair[2], qc.queried_database, qc.queried_schema)),
                        Tail(renamed_tables), qc)

\* Sources that takes the whole read set
SourcesOfReadSet(st, qc) ==
    {NameQualification(t, qc.queried_database, qc.queried_schema) : t \in st.read}

\* sources of a statement: read minus intermediate, qualified
Sources(st, qc) ==
    {NameQualification(t, qc.queried_database, qc.queried_schema) :
        t \in st.read \ st.intermediate}

\* targets of a statement: write, qualified
Targets(st, qc) ==
    {NameQualification(t, qc.queried_database, qc.queried_schema) : t \in st.write}

\* UpdateStatement that materializes the sources and targets before the drops and the
\* renames
UpdateStatementWritesFirst(g, st, qc) ==
    LET written == AddNodesAndEdges(g, Sources(st, qc), Targets(st, qc), qc)
        dropped == RemoveNodes(written, st.drop, qc)
    IN RenameNodes(dropped, st.rename, qc)

\* the body of the loop of _update_lineage_graph, for one analyzed statement
UpdateStatement(g, st, qc) ==
    LET dropped == RemoveNodes(g, st.drop, qc)
        renamed == RenameNodes(dropped, st.rename, qc)
    IN AddNodesAndEdges(renamed, Sources(st, qc), Targets(st, qc), qc)

\* _update_lineage_graph
RECURSIVE UpdateLineageGraph(_, _, _)
UpdateLineageGraph(g, analyzed_statements, qc) ==
    IF analyzed_statements = <<>> THEN g
    ELSE UpdateLineageGraph(UpdateStatement(g, Head(analyzed_statements), qc),
                            Tail(analyzed_statements), qc)

\* the body of the loop of init_graph_from_query_list, for one (query, query_context):
\* _parse_query analyzes every statement of the query before any is applied, and an
\* SQLLineageException of any of them skips the query
IngestQuery(g, query, qc) ==
    IF \E i \in 1..Len(query) : query[i].raises THEN g
    ELSE UpdateLineageGraph(g, query, qc)

(***************************************************************************)
(* Selection: filter_on_table                                              *)
(***************************************************************************)
\* depth=None of filter_on_table
Unbounded == -1

\* the neighbours bfs_edges follows: successors, or successors of the reversed graph
Neighbours(g, ns, forward) ==
    IF forward THEN UNION {Successors(g, n) : n \in ns}
    ELSE UNION {Predecessors(g, n) : n \in ns}

\* the layers a breadth-first search discovers after `seen`, at most depth_limit of them
RECURSIVE BfsLayers(_, _, _, _, _)
BfsLayers(g, frontier, seen, depth_limit, forward) ==
    LET next == Neighbours(g, frontier, forward) \ seen
    IN IF depth_limit = 0 \/ next = {} THEN <<>>
       ELSE <<next>> \o BfsLayers(g, next, seen \cup next, depth_limit - 1, forward)

\* the depths nx.bfs_tree(depth_limit=depth) can search to: len(G) for None, else the
\* limit; for depth_limit=0 it depends on the networkx release, generic_bfs_edges
\* before 3.2 yields the children of the source before it looks at the limit (the
\* result of depth_limit=1), later releases yield nothing
BfsDepths(g, depth) ==
    IF depth = Unbounded THEN {Cardinality(g.nodes)}
    ELSE IF depth = 0 THEN {0, 1}
    ELSE {depth}

\* the edge sets nx.bfs_tree can return: every discovered vertex gets one edge from a
\* vertex of the layer before it (which one is decided by the adjacency order)
BfsTreeEdges(g, source, depth_limit, forward) ==
    LET layers == <<{source}>> \o BfsLayers(g, {source}, {source}, depth_limit, forward)
        found == UNION {layers[i] : i \in 2..Len(layers)}
        LayerOf(n) == CHOOSE i \in 1..Len(layers) : n \in layers[i]
        Parents(n) == {p \in layers[LayerOf(n) - 1] :
                          IF forward THEN <<p, n>> \in g.edges ELSE <<n, p>> \in g.edges}
        choices == {par \in [found -> g.nodes] : \A n \in found : par[n] \in Parents(n)}
    IN {{<<par[n], n>> : n \in found} : par \in choices}

\* a DiGraph built from tree edges and the source: no vertex has attributes
TreeGraph(g, source, tree) ==
    LET ns == {source} \cup {e[1] : e \in tree} \cup {e[2] : e \in tree}
    IN [g EXCEPT !.nodes = ns, !.edges = tree, !.attr = [n \in ns |-> NoAttr]]

\* _downstream_graph: the graphs it can return
DownstreamGraphs(g, source_node, depth) ==
    {TreeGraph(g, source_node, tree) : tree \in BfsTreeEdges(g, source_node, depth, TRUE)}

\* _upstream_graph: the tree of the reversed graph, reversed back
UpstreamGraphs(g, target_node, depth) ==
    {TreeGraph(g, target_node, {<<e[2], e[1]>> : e \in tree}) :
        tree \in BfsTreeEdges(g, target_node, depth, FALSE)}

\* NxCompose that forgets the edges of H
NxComposeEdgesOfFirst(G, H) ==
    [G EXCEPT !.nodes = G.nodes \cup H.nodes,
              !.attr = [n \in G.nodes \cup H.nodes |-> [title |-> Absent, color |-> Absent]]]

\* nx.compose(G, H)
NxCompose(G, H) ==
    [G EXCEPT !.nodes = G.nodes \cup H.nodes,
              !.edges = G.edges \cup H.edges,
              !.attr = [n \in G.nodes \cup H.nodes |->
                          IF n \in H.nodes
                          THEN AttrUpdate(IF n \in G.nodes THEN G.attr[n] ELSE NoAttr, H.attr[n])
                          ELSE G.attr[n]]]

\* _update_selected_node_attributes
UpdateSelectedNodeAttributes(g, selected_node) ==
    IF selected_node \in g.nodes
    THEN LET node_title == IF g.attr[selected_node].title = Absent THEN ""
                           ELSE g.attr[selected_node].title
         IN [g EXCEPT !.attr = [g.attr EXCEPT ![selected_node] =
                [title |-> SELECTED_NODE_TITLE \o node_title, color |-> SELECTED_NODE_COLOR]]]
    ELSE g

\* the graphs filter_on_table can leave for a resolved table and a valid direction,
\* depth being the depth the library searches to
FilteredGraphs(g, table_name, direction, depth) ==
    LET selected == IF direction = DOWNSTREAM_DIRECTION
                    THEN DownstreamGraphs(g, table_name, depth)
                    ELSE IF direction = UPSTREAM_DIRECTION
                    THEN UpstreamGraphs(g, table_name, depth)
                    ELSE {NxCompose(u, d) : u \in UpstreamGraphs(g, table_name, depth),
                                            d \in DownstreamGraphs(g, table_name, depth)}
    IN {UpdateSelectedNodeAttributes(h, table_name) : h \in selected}

Directions == {UPSTREAM_DIRECTION, DOWNSTREAM_DIRECTION, BOTH_DIRECTIONS}

\* FilterError without the final else branch of the direction test
FilterErrorDirectionUnchecked(g, selected_table, direction) ==
    LET resolved == NameQualification(TableOf(selected_table), profile_database_name,
                                      profile_schema_name)
    IN IF resolved = None THEN "ConfigError"
       ELSE IF resolved \notin g.nodes THEN "NetworkXError"
       ELSE None

\* the exception filter_on_table ends with, or None
FilterError(g, selected_table, direction) ==
    LET resolved == NameQualification(TableOf(selected_table), profile_database_name,
                                      profile_schema_name)
    IN IF resolved = None THEN "ConfigError"
       ELSE IF direction \notin Directions THEN "ConfigError"
       ELSE IF resolved \notin g.nodes THEN "NetworkXError"
       ELSE None

(***************************************************************************)
(* Rendering: _enrich_graph_with_monitoring_context                         *)
(***************************************************************************)
\* seq[-3:]
LastThree(seq) == SubSeq(seq, IF Len(seq) > 3 THEN Len(seq) - 2 ELSE 1, Len(seq))

\* sorted(seq)[k - 1]
KthSmallest(seq, k) ==
    CHOOSE v \in {seq[i] : i \in 1..Len(seq)} :
        /\ Cardinality({i \in 1..Len(seq) : seq[i] < v}) < k
        /\ k <= Cardinality({i \in 1..Len(seq) : seq[i] <= v})

\* twice statistics.median(seq): the middle value, or the mean of the two middle values
TwiceMedian(seq) ==
    LET n == Len(seq)
    IN IF n % 2 = 1 THEN 2 * KthSmallest(seq, (n + 1) \div 2)
       ELSE KthSmallest(seq, n \div 2) + KthSmallest(seq, n \div 2 + 1)

\* VolumeTooLow with the median of the last three samples
VolumeTooLowOfLastThree(node_volumes) ==
    4 * node_volumes[Len(node_volumes)] < TwiceMedian(LastThree(node_volumes))

\* node_volumes[-1] < median(node_volumes) / 2, over the whole sample history
VolumeTooLow(node_volumes) ==
    4 * node_volumes[Len(node_volumes)] < TwiceMedian(node_volumes)

RECURSIVE JoinInts(_)
JoinInts(seq) ==
    IF seq = <<>> THEN "" ELSE ToString(Head(seq)) \o "," \o JoinInts(Tail(seq))

RECURSIVE JoinStrs(_)
JoinStrs(seq) ==
    IF seq = <<>> THEN "" ELSE Head(seq) \o "," \o JoinStrs(Tail(seq))

\* _get_freshness_and_volume_graph_for_node: the chart of the last three samples
FreshnessAndVolumeGraph(g, node) ==
    "<chart " \o node \o " times=" \o JoinStrs(LastThree(g.catalog[node].update_times))
        \o " volumes=" \o JoinInts(LastThree(g.catalog[node].volume)) \o ">"

WARNING_BLOCK == "<warning>Warning - last update volume is too low</warning>"

\* the title and colour _enrich_graph_with_monitoring_context leaves on a vertex
EnrichedAttr(g, node) ==
    IF node \in DOMAIN g.catalog
    THEN LET body == g.catalog[node].last_html \o FreshnessAndVolumeGraph(g, node)
         IN IF VolumeTooLow(g.catalog[node].volume)
            THEN [title |-> "<html>" \o WARNING_BLOCK \o body \o "</html>",
                  color |-> ANOMALY_COLOR]
            ELSE [title |-> "<html>" \o body \o "</html>", color |-> g.attr[node].color]
    ELSE g.attr[node]

\* EnrichGraphWithMonitoringContext that looks every vertex up in the catalog, which
\* makes the defaultdict create an entry for a vertex that has none
EnrichGraphCreatingEntries(g) ==
    [g EXCEPT !.attr = [n \in g.nodes |-> EnrichedAttr(g, n)],
              !.catalog = [k \in DOMAIN g.catalog \cup g.nodes |->
                             IF k \in DOMAIN g.catalog THEN g.catalog[k]
                             ELSE [volume |-> <<>>, update_times |-> <<>>,
                                   last_html |-> None]]]

\* _enrich_graph_with_monitoring_context
EnrichGraphWithMonitoringContext(g) ==
    [g EXCEPT !.attr = [n \in g.nodes |-> EnrichedAttr(g, n)]]

(***************************************************************************)
(* The state machine                                                       *)
(***************************************************************************)
Graph == [nodes |-> nodes, edges |-> edges, attr |-> attr, catalog |-> catalog]

SetGraph(g) ==
    /\ nodes' = g.nodes
    /\ edges' = g.edges
    /\ attr' = g.attr
    /\ catalog' = g.catalog

\* no DataMonitoring object has been created
MONITORING_SCHEMAS_CONFIGURATION == "monitoring_schemas_configuration"
MONITORING_TABLES_CONFIGURATION == "monitoring_tables_configuration"
MONITORING_COLUMNS_CONFIGURATION == "monitoring_columns_configuration"

\* the tables monitoring_configuration_exists counts the rows of
ConfigurationTables ==
    {MONITORING_SCHEMAS_CONFIGURATION, MONITORING_TABLES_CONFIGURATION,
     MONITORING_COLUMNS_CONFIGURATION}

\* the table does not exist: the count query raises ProgrammingError
MissingTable == -1

MonitorIdle ==
    /\ mon_pc = "idle"
    /\ run_args = [force_update_dbt_packages |-> FALSE,
                   reload_monitoring_configuration |-> FALSE, dbt_full_refresh |-> FALSE]
    /\ dbt_package_exists = FALSE
    /\ configuration_rows = [t \in ConfigurationTables |-> MissingTable]
    /\ slack_webhook = None
    /\ alerts = EmptyDict
    /\ calls = <<>>

\* LineageGraph.__init__
Init ==
    /\ show_isolated_nodes \in BOOLEAN
    /\ profile_database_name = "db"
    /\ profile_schema_name \in {None, "s"}
    /\ show_full_table_name \in BOOLEAN
    /\ nodes = {}
    /\ edges = {}
    /\ attr = EmptyDict
    /\ catalog = EmptyDict
    /\ n_queries = 0
    /\ pc = "ingest"
    /\ last = [op |-> "init"]
    /\ table_ref = NoTable
    /\ MonitorIdle

\* one iteration of init_graph_from_query_list: the next entry of the query log, whose
\* end time is its position in the time-ordered log
Ingest(entries, max_queries) ==
    /\ pc = "ingest"
    /\ n_queries < max_queries
    /\ \E entry \in entries :
          LET qc == QueryContext(entry.database_name, entry.schema_name, entry.volume,
                                 n_queries + 1)
          IN /\ SetGraph(IngestQuery(Graph, entry.query, qc))
             /\ last' = [op |-> "ingest", query |-> entry.query, qc |-> qc,
                         removed |-> nodes \ nodes', added |-> nodes' \ nodes,
                         repeated |-> /\ last.op = "ingest"
                                      /\ last.query = entry.query
                                      /\ last.qc.queried_database = entry.database_name
                                      /\ last.qc.queried_schema = entry.schema_name]
    /\ n_queries' = n_queries + 1
    /\ UNCHANGED <<config, pc, table_ref, monitor_vars>>

\* filter_on_table(selected_table, direction, depth), called while the program is at one
\* of the positions pcs
FilterOnTableFrom(pcs, tables, directions, depths) ==
    /\ pc \in pcs
    /\ \E selected_table \in tables, direction \in directions, depth \in depths :
          LET resolved == NameQualification(TableOf(selected_table), profile_database_name,
                                            profile_schema_name)
              error == FilterError(Graph, selected_table, direction)
              op == [op |-> "filter", table |-> selected_table, resolved |-> resolved,
                     direction |-> direction, depth |-> depth, error |-> error]
          IN IF error # None
             THEN /\ UNCHANGED <<nodes, edges, attr, catalog>>
                  /\ pc' = "failed"
                  /\ last' = op
             ELSE /\ \E limit \in BfsDepths(Graph, depth) :
                     \E h \in FilteredGraphs(Graph, resolved, direction, limit) : SetGraph(h)
                  /\ pc' = "filtered"
                  /\ last' = op
    /\ UNCHANGED <<config, n_queries, table_ref, monitor_vars>>

\* filter_on_table as the first call after the ingestion
FilterOnTable(tables, directions, depths) ==
    FilterOnTableFrom({"ingest"}, tables, directions, depths)

\* draw_graph: the enrichment pass, then the hand-over to the renderer
DrawGraph ==
    /\ pc \in {"ingest", "filtered"}
    /\ SetGraph(EnrichGraphWithMonitoringContext(Graph))
    /\ pc' = "drawn"
    /\ last' = [op |-> "draw", from |-> pc]
    /\ UNCHANGED <<config, n_queries, table_ref, monitor_vars>>

(***************************************************************************)
(* Inputs of the structural-edit specification: four table references and  *)
(* the statements over them                                                *)
(***************************************************************************)
TA == Table(DefaultSchema, "a")    \* unqualified
TB == Table("s", "b")              \* bare schema
TC == Table("db.s", "c")           \* db.schema
TX == Table("xx.s", "x")           \* a table of another database
InRefs == {TA, TB, TC}
Refs == InRefs \cup {TX}

Writes(read, write) == Statement(<<>>, <<>>, read, {}, write)
Drops(drop) == Statement(drop, <<>>, {}, {}, {})
Renames(old, new) == Statement(<<>>, <<<<old, new>>>>, {}, {}, {})

EditStatements ==
    {Writes({x}, {y}) : x \in InRefs, y \in InRefs}
    \cup {Writes({TX}, {TA}), Writes({TA}, {TX})}
    \cup {Writes({TA, TB}, {TC}), Writes({TA}, {TB, TC})}
    \cup {Statement(<<>>, <<>>, {TA, TB}, {TA}, {TC})}
    \cup {Drops(<<x>>) : x \in Refs}
    \cup {Drops(<<TA, TB>>), Drops(<<TB, TA>>)}
    \cup {Renames(p[1], p[2]) : p \in {q \in InRefs \X InRefs : q[1] # q[2]}}
    \cup {Renames(TA, TA), Renames(TX, TA), Renames(TA, TX)}
    \cup {Statement(<<TB>>, <<>>, {TA}, {}, {TB}), Statement(<<TA>>, <<>>, {TA}, {}, {TC})}
    \cup {Statement(<<>>, <<<<TA, TB>>>>, {TB}, {}, {TC})}

Entry(query, database_name, schema_name, volume) ==
    [query |-> query, database_name |-> database_name, schema_name |-> schema_name,
     volume |-> volume]

EditEntries ==
    {Entry(<<st>>, "db", "s", 100) : st \in EditStatements}
    \cup {Entry(<<Writes({TA}, {TC})>>, None, None, 100),
          Entry(<<Writes({TC}, {TB})>>, None, None, 100),
          Entry(<<Writes({TC}, {TC})>>, None, None, 100)}
    \cup {Entry(<<FailingStatement>>, "db", "s", 100),
          Entry(<<Writes({TA}, {TB}), FailingStatement>>, "db", "s", 100),
          Entry(<<Writes({TA}, {TB}), Writes({TB}, {TC})>>, "db", "s", 100)}

MaxQueries == 3

\* the ingestion of the query log
Next == Ingest(EditEntries, MaxQueries)

Spec == Init /\ [][Next]_vars

(***************************************************************************)
(* Properties of the structural edits, under Spec                          *)
(***************************************************************************)
\* what the last ingested entry was
IsIngest(op) == op.op = "ingest"
SingleStatement(op) == IsIngest(op) /\ Len(op.query) = 1 /\ ~op.query[1].raises
QualifiedBy(op, table) ==
    NameQualification(table, op.qc.queried_database, op.qc.queried_schema)
\* the entry is the one statement "DROP TABLE t"
IsDropOf(op, t) == SingleStatement(op) /\ op.query[1] = Drops(<<t>>)
\* the entry is the one statement "ALTER TABLE old RENAME TO new"
IsRenameOf(op, old, new) == SingleStatement(op) /\ op.query[1] = Renames(old, new)
\* the entry is one statement that only reads and writes
IsWrite(op) ==
    /\ SingleStatement(op)
    /\ op.query[1].drop = <<>>
    /\ op.query[1].rename = <<>>
    /\ op.query[1].write # {}

Incident(e, n) == e[1] = n \/ e[2] = n
SelfLoops == {e \in edges : e[1] = e[2]}

\* C1: with showIsolatedNodes disabled the graph holds no vertex of degree 0 after any
\* sequence of ingested statements (drops, renames, also onto existing vertices, and
\* writes, also self-referencing ones).
C1_NoIsolatedVertex ==
    ~show_isolated_nodes => \A n \in nodes : \E e \in edges : Incident(e, n)

\* a drop has pruned a neighbour while a vertex with a self-loop stays in the graph
C1_Witness ==
    /\ ~show_isolated_nodes
    /\ IsIngest(last)
    /\ last.query[1].drop # <<>>
    /\ Cardinality(last.removed) >= 2
    /\ SelfLoops # {}

\* C2: dropping an existing in-scope vertex X removes X and every edge incident to X,
\* with showIsolatedNodes disabled also every former neighbour of X left without an
\* edge, with it enabled no other vertex; all other vertices and edges are unchanged.
C2_DropPost(X) ==
    LET kept == {e \in edges : ~Incident(e, X)}
        neighbours == {n \in nodes \ {X} : \E e \in edges : Incident(e, X) /\ Incident(e, n)}
        islands == {n \in neighbours : ~\E e \in kept : Incident(e, n)}
    IN /\ edges' = kept
       /\ nodes' = IF show_isolated_nodes THEN nodes \ {X} ELSE nodes \ ({X} \cup islands)
       /\ (nodes = {"a", "b"} /\ edges = {<<"a", "b">>} /\ X = "b")
             => nodes' = IF show_isolated_nodes THEN {"a"} ELSE {}

C2_DropRemovesAndPrunes ==
    [][\A t \in Refs :
          (IsDropOf(last', t) /\ QualifiedBy(last', t) \in nodes)
             => C2_DropPost(QualifiedBy(last', t))]_vars

\* the drop of b from the graph a -> b with pruning: the graph is empty
C2_Witness ==
    /\ ~show_isolated_nodes
    /\ IsDropOf(last, TB)
    /\ last.removed = {QualifiedBy(last, TA), QualifiedBy(last, TB)}
    /\ nodes = {}

\* a drop that leaves a former neighbour as an isolated vertex
C2_WitnessEnabled ==
    /\ show_isolated_nodes
    /\ IsDropOf(last, TB)
    /\ last.removed = {QualifiedBy(last, TB)}
    /\ nodes = {QualifiedBy(last, TA)}
    /\ edges = {}

\* C3: renaming an existing vertex old to a name new that is no vertex yet relabels it:
\* old is no vertex afterwards, new is, the edges are the former edges with old replaced
\* by new (a self-loop stays a self-loop), the title is carried over, and a catalog entry
\* of old is afterwards the entry of new, none being left under old.
C3_RenamePost(old, new) ==
    LET R(n) == IF n = old THEN new ELSE n
    IN /\ nodes' = (nodes \ {old}) \cup {new}
       /\ edges' = {<<R(e[1]), R(e[2])>> : e \in edges}
       /\ attr'[new].title = attr[old].title
       /\ \A n \in nodes \ {old} : attr'[n] = attr[n]
       /\ old \in DOMAIN catalog =>
             /\ new \in DOMAIN catalog'
             /\ catalog'[new] = catalog[old]
             /\ old \notin DOMAIN catalog'
       /\ (nodes = {"a", "b"} /\ edges = {<<"a", "b">>} /\ old = "a" /\ new = "c")
             => (nodes' = {"c", "b"} /\ edges' = {<<"c", "b">>})

C3_RenameRelabels ==
    [][\A old \in Refs, new \in Refs :
          LET o == QualifiedBy(last', old)
              n == QualifiedBy(last', new)
          IN (IsRenameOf(last', old, new) /\ o # None /\ n # None /\ o \in nodes
                /\ n \notin nodes)
                => C3_RenamePost(o, n)]_vars

\* a vertex with a catalog entry and a self-loop has been renamed to a fresh name
C3_Witness ==
    /\ IsRenameOf(last, TB, TC)
    /\ last.removed = {QualifiedBy(last, TB)}
    /\ last.added = {QualifiedBy(last, TC)}
    /\ QualifiedBy(last, TC) \in DOMAIN catalog
    /\ <<QualifiedBy(last, TC), QualifiedBy(last, TC)>> \in edges
    /\ Cardinality(edges) >= 2

\* C4: every catalog key is a current vertex of the graph (the keys are the vertices
\* written as a target and not dropped since), also after isolated-node pruning.
C4_CatalogKeysAreVertices == DOMAIN catalog \subseteq nodes

\* C8: ingesting the same write statement a second time leaves the vertex set and the
\* edge set as the first ingestion left them.
C8_WriteTwiceIsWriteOnce ==
    [][(IsWrite(last') /\ last'.repeated) => (nodes' = nodes /\ edges' = edges)]_vars

\* a write with two edges has been ingested twice in a row
C8_Witness ==
    /\ IsWrite(last)
    /\ last.repeated
    /\ Cardinality(edges) >= 2
    /\ last.added = {}

\* C9: the scope test of the claim, on a resolved schema string
C9_SchemaInScope(schema) ==
    IF profile_schema_name # None
    THEN schema = profile_database_name \o "." \o profile_schema_name
    ELSE Contains(profile_database_name, schema)

C9_TablesOf(query) ==
    UNION {{query[i].drop[j] : j \in 1..Len(query[i].drop)}
           \cup {query[i].rename[j][1] : j \in 1..Len(query[i].rename)}
           \cup {query[i].rename[j][2] : j \in 1..Len(query[i].rename)}
           \cup query[i].read \cup query[i].write : i \in 1..Len(query)}

\* the identifiers of the in-scope tables of the last entry
C9_InScopeIds(op) ==
    {QualifiedBy(op, t) :
        t \in {u \in C9_TablesOf(op.query) :
                 C9_SchemaInScope(ResolveTableQualification(u, op.qc.queried_database,
                                                            op.qc.queried_schema).schema)}}

\* an identifier an in-scope table can have
C9_IsInScopeId(n) ==
    /\ n # None
    /\ IF show_full_table_name THEN Contains(".", n) /\ C9_SchemaInScope(RSplitFirst(n))
       ELSE n \in {"a", "b", "c"}

\* C9: a table whose resolved schema is out of the profile scope never becomes a vertex,
\* an edge endpoint or a catalog key: what an entry adds are identifiers of its in-scope
\* tables, and every vertex and catalog key is the identifier of an in-scope table.
C9_OutOfScopeNeverEnters ==
    [][IsIngest(last') =>
          LET ids == C9_InScopeIds(last')
              new == (nodes' \ nodes) \cup (DOMAIN catalog' \ DOMAIN catalog)
                        \cup UNION {{e[1], e[2]} \ nodes : e \in edges' \ edges}
          IN /\ new \subseteq ids
             /\ \A n \in nodes' \cup DOMAIN catalog' : C9_IsInScopeId(n)
             /\ \A e \in edges' : e[1] \in nodes' /\ e[2] \in nodes']_vars

\* a statement that reads an out-of-scope table and writes an in-scope one has been
\* ingested with isolated vertices shown: the target is a vertex, the source is not
C9_Witness ==
    /\ show_isolated_nodes
    /\ SingleStatement(last)
    /\ last.query[1] = Writes({TX}, {TA})
    /\ last.added = {QualifiedBy(last, TA)}
    /\ QualifiedBy(last, TA) \in DOMAIN catalog

\* the statements of a query the analyzer does not fail on
C11_Analyzed(st) == ~st.raises

\* C11: when the analyzer fails on a statement only that statement is skipped: the graph
\* and the catalog are as if the entry held its other statements only, which are applied.
C11_OnlyFailingStatementSkipped ==
    [][IsIngest(last') =>
          LET g == UpdateLineageGraph(Graph, SelectSeq(last'.query, C11_Analyzed), last'.qc)
          IN /\ nodes' = g.nodes
             /\ edges' = g.edges
             /\ attr' = g.attr
             /\ catalog' = g.catalog]_vars

\* the in-scope sources and targets of the one statement of the last entry
C16_Sources(op) == Sources(op.query[1], op.qc) \ {None}
C16_Targets(op) == Targets(op.query[1], op.qc) \ {None}

\* C16 as claimed: after a statement that writes the in-scope table T, a vertex T has the
\* rendering of that statement's execution context as its title, with or without in-scope
\* sources in the statement and for either setting of showIsolatedNodes.
C16_TitleIsOfLastWrite ==
    [][IsWrite(last') =>
          \A T \in C16_Targets(last') :
              T \in nodes' => attr'[T].title = ToHtml(last'.qc)]_vars

\* C16 as amended: a statement that writes the in-scope table T and has an in-scope
\* source, or is ingested with showIsolatedNodes enabled, makes T a vertex whose title is
\* the rendering of the statement's execution context, whatever the title was; a write
\* without in-scope sources under showIsolatedNodes disabled changes no vertex, and no
\* write changes the title of a vertex it does not write in this way.
C16_TitleIsOfLastEffectiveWrite ==
    [][IsWrite(last') =>
          LET written == IF C16_Sources(last') # {} \/ show_isolated_nodes
                         THEN C16_Targets(last') ELSE {}
          IN /\ \A T \in written : T \in nodes' /\ attr'[T].title = ToHtml(last'.qc)
             /\ \A n \in nodes' \ written :
                   attr'[n].title = IF n \in nodes THEN attr[n].title ELSE Absent
             /\ written = {} /\ ~show_isolated_nodes => nodes' = nodes]_vars

\* a vertex with a title has been written again by a statement without in-scope sources,
\* isolated vertices not being shown: it keeps the title of the earlier statement
C16_Witness ==
    /\ ~show_isolated_nodes
    /\ IsWrite(last)
    /\ C16_Sources(last) = {}
    /\ \E T \in C16_Targets(last) \cap nodes :
          attr[T].title \notin {Absent, ToHtml(last.qc)}

\* C17: after a statement that drops the in-scope table T the catalog holds no entry
\* keyed by T.
C17_DropDeletesCatalogEntry ==
    [][\A t \in Refs :
          (IsDropOf(last', t) /\ QualifiedBy(last', t) # None)
             => QualifiedBy(last', t) \notin DOMAIN catalog']_vars

\* C19: a statement that reads and writes the same in-scope table T leaves the self-loop
\* T -> T, and a statement that does not drop T keeps a self-loop of T, on the name a
\* rename of the statement gives T; drop pruning never removes a vertex with a self-loop.
C19_SelfLoopsArePreserved ==
    [][SingleStatement(last') =>
          LET st == last'.query[1]
              dropped == {QualifiedBy(last', st.drop[i]) : i \in 1..Len(st.drop)}
              Renamed(n) ==
                  IF /\ st.rename # <<>>
                     /\ QualifiedBy(last', st.rename[1][1]) = n
                     /\ QualifiedBy(last', st.rename[1][2]) # None
                  THEN QualifiedBy(last', st.rename[1][2]) ELSE n
          IN /\ \A e \in SelfLoops :
                   e[1] \notin dropped => <<Renamed(e[1]), Renamed(e[1])>> \in edges'
             /\ \A T \in (Sources(st, last'.qc) \cap Targets(st, last'.qc)) \ {None} :
                   <<T, T>> \in edges']_vars

\* the drop of a neighbour has left a vertex whose only edge is its self-loop, isolated
\* vertices not being shown
C19_Witness ==
    /\ ~show_isolated_nodes
    /\ SingleStatement(last)
    /\ last.query[1].drop # <<>>
    /\ last.removed # {}
    /\ \E n \in nodes : {e \in edges : Incident(e, n)} = {<<n, n>>}

(***************************************************************************)
(* Selection: writes over four tables, then one filter_on_table             *)
(***************************************************************************)
SA == Table(DefaultSchema, "a")
SB == Table(DefaultSchema, "b")
SC == Table(DefaultSchema, "c")
SD == Table(DefaultSchema, "d")

SelectStatements ==
    {Writes({SA}, {SB}), Writes({SB}, {SC}), Writes({SC}, {SD}), Writes({SD}, {SB}),
     Writes({SB}, {SB}),
     Writes({SB}, {SA, SC}), Writes({SA, SC}, {SD}),
     Writes({SD}, {SA, SC}), Writes({SA, SC}, {SB})}

SelectEntries == {Entry(<<st>>, "db", "s", 100) : st \in SelectStatements}

SelectTables == {"b", "s.b"}
SelectDirections == Directions \cup {None}
MaxDepth == 2
SelectDepths == {Unbounded} \cup 0..MaxDepth
MaxSelectQueries == 3

NextSelect ==
    \/ Ingest(SelectEntries, MaxSelectQueries)
    \/ FilterOnTable(SelectTables, SelectDirections, SelectDepths)

\* the statements of SelectEntries have sources and targets, so the graph they build
\* does not depend on show_isolated_nodes
InitSelect == Init /\ ~show_isolated_nodes

SpecSelect == InitSelect /\ [][NextSelect]_vars

(***************************************************************************)
(* Properties of the selection, under SpecSelect                            *)
(***************************************************************************)
\* the last step was a selection that raised nothing
Selected(op, direction) == op.op = "filter" /\ op.error = None /\ op.direction = direction

\* the vertices with a directed path of at most k edges from v (forward) or to v
RECURSIVE WithinHops(_, _, _)
WithinHops(v, k, forward) ==
    IF k = 0 THEN {v}
    ELSE LET near == WithinHops(v, k - 1, forward)
         IN near \cup {n \in nodes : \E m \in near :
                          IF forward THEN <<m, n>> \in edges ELSE <<n, m>> \in edges}

\* the depth limit d of a selection as a number of hops
Hops(d) == IF d = Unbounded THEN Cardinality(nodes) ELSE d

\* the number of hops between v and n
Distance(v, n, forward) ==
    CHOOSE k \in 0..Cardinality(nodes) :
        /\ n \in WithinHops(v, k, forward)
        /\ \A j \in 0..(k - 1) : n \notin WithinHops(v, j, forward)

TheChain == {<<"a", "b">>, <<"b", "c">>, <<"c", "d">>}
OnTheChain(v) == nodes = {"a", "b", "c", "d"} /\ edges = TheChain /\ v = "b"

\* C5: what a downstream selection of v with depth limit d leaves
C5_DownstreamPost(v, d) ==
    /\ nodes' = WithinHops(v, Hops(d), TRUE)
    /\ edges' \subseteq edges
    /\ \A n \in nodes' \ {v} :
          /\ Cardinality({e \in edges' : e[2] = n}) = 1
          /\ \A e \in edges' : e[2] = n =>
                Distance(v, e[1], TRUE) + 1 = Distance(v, n, TRUE)
    /\ (OnTheChain(v) /\ d = 1) => (nodes' = {"b", "c"} /\ edges' = {<<"b", "c">>})

\* C5: a downstream selection of an existing vertex v with depth limit d yields exactly
\* the vertices within d hops downstream of v (for d = 0 exactly {v}), only edges of the
\* Graph Store in their direction, and one incoming edge per vertex other than v, from a
\* vertex one hop closer to v.
C5_DownstreamIsBoundedBfsTree ==
    [][Selected(last', DOWNSTREAM_DIRECTION) => C5_DownstreamPost(last'.resolved, last'.depth)]_vars

\* C5 for every depth limit but 0
C5_DownstreamForPositiveDepth ==
    [][(Selected(last', DOWNSTREAM_DIRECTION) /\ last'.depth # 0)
          => C5_DownstreamPost(last'.resolved, last'.depth)]_vars

\* C6: what an upstream selection of v with depth limit d leaves
C6_UpstreamPost(v, d) ==
    /\ nodes' = WithinHops(v, Hops(d), FALSE)
    /\ edges' \subseteq edges
    /\ (OnTheChain(v) /\ d = 1) => (nodes' = {"a", "b"} /\ edges' = {<<"a", "b">>})

\* C6: an upstream selection of an existing vertex v with depth limit d yields exactly
\* the vertices from which v is reachable within d hops, and every edge of the result is
\* an edge of the Graph Store in its original direction.
C6_UpstreamKeepsDirection ==
    [][Selected(last', UPSTREAM_DIRECTION) => C6_UpstreamPost(last'.resolved, last'.depth)]_vars

\* C6 for every depth limit but 0
C6_UpstreamForPositiveDepth ==
    [][(Selected(last', UPSTREAM_DIRECTION) /\ last'.depth # 0)
          => C6_UpstreamPost(last'.resolved, last'.depth)]_vars

\* C7: a selection in both directions yields the union of an upstream and a downstream
\* result of the same Graph Store and depth limit: their vertices and their edges,
\* nothing more and nothing less.
C7_BothIsUnion ==
    [][Selected(last', BOTH_DIRECTIONS) =>
          LET v == last'.resolved
              g == Graph
          IN /\ \E limit \in BfsDepths(g, last'.depth) :
                   \E u \in UpstreamGraphs(g, v, limit), d \in DownstreamGraphs(g, v, limit) :
                      /\ nodes' = u.nodes \cup d.nodes
                      /\ edges' = u.edges \cup d.edges
             /\ edges' \subseteq edges
             /\ last'.depth # 0 =>
                   nodes' = WithinHops(v, Hops(last'.depth), FALSE)
                               \cup WithinHops(v, Hops(last'.depth), TRUE)
             /\ (OnTheChain(v) /\ last'.depth = 1) =>
                   (nodes' = {"a", "b", "c"} /\ edges' = {<<"a", "b">>, <<"b", "c">>})]_vars

\* b has been selected in both directions with depth 1 on a graph that holds the chain
C7_Witness ==
    /\ Selected(last, BOTH_DIRECTIONS)
    /\ last.depth = 1
    /\ last.resolved \in {"b", "db.s.b"}
    /\ Cardinality(nodes) = 3
    /\ Cardinality(edges) = 2
    /\ n_queries = 3

\* C12: a selection whose table name qualifies to excluded, or whose direction is none
\* of upstream, downstream and both (an absent direction included), fails with a
\* ConfigError and leaves vertices, edges, attributes and catalog as they were.
C12_ConfigErrorLeavesGraph ==
    [][(last'.op = "filter" /\ (last'.resolved = None \/ last'.direction \notin Directions))
          => /\ last'.error = "ConfigError"
             /\ pc' = "failed"
             /\ nodes' = nodes
             /\ edges' = edges
             /\ attr' = attr
             /\ catalog' = catalog]_vars

\* a selection of a vertex of a graph with edges has failed for its absent direction
C12_Witness ==
    /\ pc = "failed"
    /\ last.op = "filter"
    /\ last.error = "ConfigError"
    /\ last.direction = None
    /\ last.resolved \in nodes
    /\ edges # {}

\* a selection has failed for a table name out of the profile scope
C12_WitnessExcluded ==
    /\ pc = "failed"
    /\ last.op = "filter"
    /\ last.error = "ConfigError"
    /\ last.resolved = None
    /\ edges # {}

\* C13: a selection of a table name that qualifies into the scope, with a direction of
\* upstream, downstream or both and any depth, completes without error and yields a
\* graph that contains the selected vertex, also when the table is no vertex.
C13_ConfigErrorIsTheOnlyFailure ==
    [][(last'.op = "filter" /\ last'.resolved # None /\ last'.direction \in Directions)
          => /\ last'.error = None
             /\ pc' = "filtered"
             /\ last'.resolved \in nodes']_vars

(***************************************************************************)
(* Structural edits, then one filter_on_table                               *)
(***************************************************************************)
StoreTables == {"a", "s.b", "db.s.c"}
StoreDepths == {Unbounded, 1}
MaxStoreQueries == 2

NextStore ==
    \/ Ingest(EditEntries, MaxStoreQueries)
    \/ FilterOnTable(StoreTables, Directions, StoreDepths)

SpecStore == Init /\ [][NextStore]_vars

\* C18: after any sequence of ingested statements and after a selection, both endpoints
\* of every edge are vertices of the graph.
C18_EdgeEndpointsAreVertices ==
    \A e \in edges : e[1] \in nodes /\ e[2] \in nodes

\* a selection has left edges on a graph that a rename or a drop had edited
C18_Witness ==
    /\ pc = "filtered"
    /\ edges # {}
    /\ n_queries = 2

(***************************************************************************)
(* Rendering: writes with different volumes, then draw_graph                *)
(***************************************************************************)
FreshVolumes == {10, 60, 100}

FreshEntries ==
    {Entry(<<Writes({TA}, {TB})>>, "db", "s", v) : v \in FreshVolumes}
    \cup {Entry(<<Writes({TB}, {TA})>>, "db", "s", 100)}

MaxSamples == 4

NextFresh ==
    \/ Ingest(FreshEntries, MaxSamples)
    \/ DrawGraph

SpecFresh == Init /\ [][NextFresh]_vars

(***************************************************************************)
(* Properties of the rendering, under SpecFresh                             *)
(***************************************************************************)
\* seq in ascending order, by insertion
RECURSIVE C10_Insert(_, _)
C10_Insert(sorted, x) ==
    IF sorted = <<>> THEN <<x>>
    ELSE IF x <= Head(sorted) THEN <<x>> \o sorted
    ELSE <<Head(sorted)>> \o C10_Insert(Tail(sorted), x)

RECURSIVE C10_Sorted(_)
C10_Sorted(seq) ==
    IF seq = <<>> THEN <<>> ELSE C10_Insert(C10_Sorted(Tail(seq)), Head(seq))

\* the last sample of seq is less than half the median of the samples of window
C10_BelowHalfMedian(seq, window) ==
    LET sorted == C10_Sorted(window)
        n == Len(sorted)
        last_volume == seq[Len(seq)]
    IN IF n % 2 = 1 THEN 2 * last_volume < sorted[(n + 1) \div 2]
       ELSE 4 * last_volume < sorted[n \div 2] + sorted[n \div 2 + 1]

\* the vertex is rendered as anomalous: red, with the warning block in its title
C10_MarkedAnomalous(n) ==
    attr[n].color = ANOMALY_COLOR /\ Contains(WARNING_BLOCK, attr[n].title)

C10_Unmarked(n) ==
    attr[n].color # ANOMALY_COLOR /\ ~Contains(WARNING_BLOCK, attr[n].title)

C10_Examples(n) ==
    /\ catalog[n].volume = <<100, 100, 100, 10>> => C10_MarkedAnomalous(n)
    /\ catalog[n].volume = <<100, 100, 100, 60>> => C10_Unmarked(n)

\* C10 as claimed: at render time a vertex with a catalog entry is marked anomalous if
\* and only if its most recent volume is less than half the median of its last
\* up-to-three volume samples, whatever the length of its history.
C10_AnomalyOfLastThree ==
    pc = "drawn" =>
        \A n \in nodes \cap DOMAIN catalog :
            LET volumes == catalog[n].volume
            IN /\ IF C10_BelowHalfMedian(volumes, LastThree(volumes))
                  THEN C10_MarkedAnomalous(n) ELSE C10_Unmarked(n)
               /\ C10_Examples(n)

\* C10 as amended: at render time a vertex with a catalog entry is marked anomalous if
\* and only if its most recent volume is less than half the median of its whole volume
\* history; [100, 100, 100, 10] is flagged and [100, 100, 100, 60] is not.
C10_AnomalyOfWholeHistory ==
    pc = "drawn" =>
        \A n \in nodes \cap DOMAIN catalog :
            LET volumes == catalog[n].volume
            IN /\ IF C10_BelowHalfMedian(volumes, volumes)
                  THEN C10_MarkedAnomalous(n) ELSE C10_Unmarked(n)
               /\ C10_Examples(n)

\* a rendered vertex whose history of four samples is flagged although its last sample
\* is not below half the median of the last three
C10_Witness ==
    /\ pc = "drawn"
    /\ \E n \in nodes \cap DOMAIN catalog :
          /\ Len(catalog[n].volume) = 4
          /\ C10_MarkedAnomalous(n)
          /\ ~C10_BelowHalfMedian(catalog[n].volume, LastThree(catalog[n].volume))

(***************************************************************************)
(* The Table Qualifier on one Table object: _name_qualification is called   *)
(* on the object a caller holds, with one ingestion context after another   *)
(***************************************************************************)
QualifyTables ==
    {Table(DefaultSchema, "a"), Table("s", "a"), Table("t", "a"),
     Table("db.s", "a"), Table("db.t", "a"), Table("xx.s", "a")}
QualifyDatabases == {None, "db", "xx"}
QualifySchemas == {None, "s", "t"}
MaxQualifications == 2

\* Table(...): the analyzer hands a new reference to the caller
NewTable(tables) ==
    /\ table_ref = NoTable
    /\ \E table \in tables :
          /\ table_ref' = table
          /\ last' = [op |-> "table", original |-> table, count |-> 0]
    /\ UNCHANGED <<config, nodes, edges, attr, catalog, n_queries, pc, monitor_vars>>

\* _name_qualification(table, database_name, schema_name) on the object held:
\* _resolve_table_qualification assigns table.schema in place and returns the object
Qualify(databases, schemas, max_qualifications) ==
    /\ table_ref # NoTable
    /\ last.count < max_qualifications
    /\ \E database_name \in databases, schema_name \in schemas :
          /\ table_ref' = ResolveTableQualification(table_ref, database_name, schema_name)
          /\ last' = [op |-> "qualify", original |-> last.original,
                      count |-> last.count + 1,
                      database_name |-> database_name, schema_name |-> schema_name,
                      result |-> NameQualification(table_ref, database_name, schema_name)]
    /\ UNCHANGED <<config, nodes, edges, attr, catalog, n_queries, pc, monitor_vars>>

NextQualify ==
    \/ NewTable(QualifyTables)
    \/ Qualify(QualifyDatabases, QualifySchemas, MaxQualifications)

SpecQualify == Init /\ [][NextQualify]_vars

\* C14: qualifying a reference whose schema part is already dotted (db.schema) gives the
\* same identifier, or the same exclusion, for every ingestion context: every
\* combination of a known or unknown database and schema.
C14_DottedIgnoresContext ==
    [][(last'.op = "qualify" /\ Contains(".", table_ref.schema)) =>
          \A database_name \in QualifyDatabases, schema_name \in QualifySchemas :
              NameQualification(table_ref, database_name, schema_name) = last'.result]_vars

\* a dotted reference has been qualified to an identifier in the context of another
\* database
C14_Witness ==
    /\ last.op = "qualify"
    /\ Contains(".", last.original.schema)
    /\ last.database_name = "xx"
    /\ last.schema_name = "t"
    /\ last.result \notin {None, "a"}

\* C15: qualifying a reference leaves its schema part and simple name unchanged, so a
\* qualification of the same object gives what a fresh copy of the original reference
\* gives in that context.
C15_QualifierIsPure ==
    [][last'.op = "qualify" =>
          /\ table_ref' = table_ref
          /\ last'.result = NameQualification(last'.original, last'.database_name,
                                              last'.schema_name)]_vars

\* C15, the second half alone: the result of a qualification is the result for a fresh
\* copy of the original reference
C15_ResultIsOfFreshCopy ==
    [][last'.op = "qualify" =>
          last'.result = NameQualification(last'.original, last'.database_name,
                                           last'.schema_name)]_vars

(***************************************************************************)
(* DataMonitoring.run (observability/data_monitoring.py): the steps of one  *)
(* monitoring run.  dbt_runner, the warehouse and Slack are outside the     *)
(* program: each dbt_runner call reports success or failure.               *)
(***************************************************************************)
DBT_PACKAGE_NAME == "elementary_observability"

RunArgs(force_update_dbt_packages, reload_monitoring_configuration, dbt_full_refresh) ==
    [force_update_dbt_packages |-> force_update_dbt_packages,
     reload_monitoring_configuration |-> reload_monitoring_configuration,
     dbt_full_refresh |-> dbt_full_refresh]

\* one call on dbt_runner, the warehouse or Slack, with its argument
Call(name, arg) == [call |-> name, arg |-> arg]

\* the names of the calls made so far
Called == {calls[i].call : i \in 1..Len(calls)}

\* "not self._dbt_package_exists() or force_update_dbt_packages", forced alone
DepsNeededWhenForcedOnly(args, package_exists) == args.force_update_dbt_packages

\* "not self._dbt_package_exists() or force_update_dbt_packages"
DepsNeeded(args, package_exists) == ~package_exists \/ args.force_update_dbt_packages

\* _count_rows_in_table: the count, 0 when the query fails
CountRowsInTable(rows, table_name) ==
    IF rows[table_name] = MissingTable THEN 0 ELSE rows[table_name]

\* SnowflakeDataMonitoring.monitoring_configuration_exists
MonitoringConfigurationExists(rows) ==
    \/ CountRowsInTable(rows, MONITORING_SCHEMAS_CONFIGURATION) > 0
    \/ CountRowsInTable(rows, MONITORING_TABLES_CONFIGURATION) > 0
    \/ CountRowsInTable(rows, MONITORING_COLUMNS_CONFIGURATION) > 0

\* ConfigurationUpdateNeeded that looks at the reload flag only
ConfigurationUpdateNeededOnReloadOnly(args, exists) == args.reload_monitoring_configuration

\* "not self.monitoring_configuration_exists() or reload_monitoring_configuration"
ConfigurationUpdateNeeded(args, exists) == ~exists \/ args.reload_monitoring_configuration

\* what a step of run() reported: the truth value its call returned
Step(name, ok) == [op |-> "step", step |-> name, ok |-> ok]

\* run(...) is called: the deps step
RunDeps(args) ==
    /\ mon_pc = "idle"
    /\ \E a \in args :
          /\ run_args' = a
          /\ IF DepsNeeded(a, dbt_package_exists)
             THEN \E ok \in BOOLEAN :
                     /\ calls' = Append(calls, Call("deps", None))
                     /\ last' = Step("deps", ok)
                     /\ mon_pc' = IF ok THEN "configuration" ELSE "done"
             ELSE /\ calls' = calls
                  /\ last' = last
                  /\ mon_pc' = "configuration"
    /\ UNCHANGED <<config, nodes, edges, attr, catalog, n_queries, pc, table_ref,
                   dbt_package_exists, configuration_rows, slack_webhook, alerts>>

\* the configuration step: _update_configuration writes the three csv files of the
\* seeds directory and returns dbt_runner.seed()
RunConfiguration ==
    /\ mon_pc = "configuration"
    /\ IF ConfigurationUpdateNeeded(run_args, MonitoringConfigurationExists(configuration_rows))
       THEN \E ok \in BOOLEAN :
               /\ calls' = calls \o <<Call("write_configuration", None), Call("seed", None)>>
               /\ last' = Step("seed", ok)
               /\ mon_pc' = IF ok THEN "snapshot" ELSE "done"
       ELSE /\ calls' = calls
            /\ last' = last
            /\ mon_pc' = "snapshot"
    /\ UNCHANGED <<config, nodes, edges, attr, catalog, n_queries, pc, table_ref,
                   run_args, dbt_package_exists, configuration_rows, slack_webhook,
                   alerts>>

\* RunSnapshot that goes on to the dbt run step whatever snapshot reported
RunSnapshotIgnoringFailure ==
    /\ mon_pc = "snapshot"
    /\ \E ok \in BOOLEAN :
          /\ calls' = Append(calls, Call("snapshot", None))
          /\ last' = Step("snapshot", ok)
          /\ mon_pc' = "run"
    /\ UNCHANGED <<config, nodes, edges, attr, catalog, n_queries, pc, table_ref,
                   run_args, dbt_package_exists, configuration_rows, slack_webhook,
                   alerts>>

\* dbt_runner.snapshot()
RunSnapshot ==
    /\ mon_pc = "snapshot"
    /\ \E ok \in BOOLEAN :
          /\ calls' = Append(calls, Call("snapshot", None))
          /\ last' = Step("snapshot", ok)
          /\ mon_pc' = IF ok THEN "run" ELSE "done"
    /\ UNCHANGED <<config, nodes, edges, attr, catalog, n_queries, pc, table_ref,
                   run_args, dbt_package_exists, configuration_rows, slack_webhook,
                   alerts>>

\* RunDbt that always asks for a full refresh
RunDbtFullRefresh ==
    /\ mon_pc = "run"
    /\ \E ok \in BOOLEAN :
          /\ calls' = Append(calls, Call("run", [model |-> DBT_PACKAGE_NAME,
                                                 full_refresh |-> TRUE]))
          /\ last' = Step("run", ok)
          /\ mon_pc' = IF ok THEN "alerts" ELSE "done"
    /\ UNCHANGED <<config, nodes, edges, attr, catalog, n_queries, pc, table_ref,
                   run_args, dbt_package_exists, configuration_rows, slack_webhook,
                   alerts>>

\* dbt_runner.run(model=DBT_PACKAGE_NAME, full_refresh=dbt_full_refresh)
RunDbt ==
    /\ mon_pc = "run"
    /\ \E ok \in BOOLEAN :
          /\ calls' = Append(calls, Call("run", [model |-> DBT_PACKAGE_NAME,
                                                 full_refresh |-> run_args.dbt_full_refresh]))
          /\ last' = Step("run", ok)
          /\ mon_pc' = IF ok THEN "alerts" ELSE "done"
    /\ UNCHANGED <<config, nodes, edges, attr, catalog, n_queries, pc, table_ref,
                   run_args, dbt_package_exists, configuration_rows, slack_webhook,
                   alerts>>

\* the orders in which a query without ORDER BY can return the rows ids
Orders(ids) ==
    {order \in [1..Cardinality(ids) -> ids] :
        \A i, j \in 1..Cardinality(ids) : i # j => order[i] # order[j]}

\* SendAlertsToSlack that issues the update also for an empty list of sent alerts
SendAlertsToSlackAlwaysUpdating ==
    /\ mon_pc = "alerts"
    /\ mon_pc' = "done"
    /\ IF slack_webhook # None
       THEN \E alert_rows \in Orders({id \in DOMAIN alerts : ~alerts[id]}) :
               LET sent == [i \in 1..Len(alert_rows) |-> Call("send_to_slack", alert_rows[i])]
               IN /\ calls' = calls \o <<Call("select_new_alerts", None)>> \o sent
                                   \o <<Call("update_sent_alerts", alert_rows)>>
                  /\ alerts' = [id \in DOMAIN alerts |->
                                   alerts[id] \/ \E i \in 1..Len(alert_rows) :
                                                     alert_rows[i] = id]
       ELSE UNCHANGED <<calls, alerts>>
    /\ UNCHANGED <<config, nodes, edges, attr, catalog, n_queries, pc, last, table_ref,
                   run_args, dbt_package_exists, configuration_rows, slack_webhook>>

\* _send_alerts_to_slack: the unsent alerts are read, each is sent to the webhook,
\* and the sent ones are marked by _update_sent_alerts
SendAlertsToSlack ==
    /\ mon_pc = "alerts"
    /\ mon_pc' = "done"
    /\ IF slack_webhook # None
       THEN \E alert_rows \in Orders({id \in DOMAIN alerts : ~alerts[id]}) :
               LET sent == [i \in 1..Len(alert_rows) |-> Call("send_to_slack", alert_rows[i])]
               IN IF Len(alert_rows) > 0
                  THEN /\ calls' = calls \o <<Call("select_new_alerts", None)>> \o sent
                                        \o <<Call("update_sent_alerts", alert_rows)>>
                       /\ alerts' = [id \in DOMAIN alerts |->
                                        alerts[id] \/ \E i \in 1..Len(alert_rows) :
                                                          alert_rows[i] = id]
                  ELSE /\ calls' = Append(calls, Call("select_new_alerts", None))
                       /\ alerts' = alerts
       ELSE UNCHANGED <<calls, alerts>>
    /\ UNCHANGED <<config, nodes, edges, attr, catalog, n_queries, pc, last, table_ref,
                   run_args, dbt_package_exists, configuration_rows, slack_webhook>>

MaxAlerts == 2
RowCounts == {MissingTable, 0, 1}
MonitorArgs == {RunArgs(f, r, d) : f \in BOOLEAN, r \in BOOLEAN, d \in BOOLEAN}
Webhooks == {None, "https://hooks.slack.com/services/T"}

\* a DataMonitoring object before run(): the package directory, the configuration in
\* the warehouse, the webhook and the alerts table are what they happen to be
InitMonitor ==
    /\ show_isolated_nodes = FALSE
    /\ profile_database_name = "db"
    /\ profile_schema_name = None
    /\ show_full_table_name = FALSE
    /\ nodes = {}
    /\ edges = {}
    /\ attr = EmptyDict
    /\ catalog = EmptyDict
    /\ n_queries = 0
    /\ pc = "ingest"
    /\ last = [op |-> "init"]
    /\ table_ref = NoTable
    /\ mon_pc = "idle"
    /\ run_args = RunArgs(FALSE, FALSE, FALSE)
    /\ dbt_package_exists \in BOOLEAN
    /\ configuration_rows \in [ConfigurationTables -> RowCounts]
    /\ slack_webhook \in Webhooks
    /\ alerts \in [1..MaxAlerts -> BOOLEAN]
    /\ calls = <<>>

NextMonitor ==
    \/ RunDeps(MonitorArgs)
    \/ RunConfiguration
    \/ RunSnapshot
    \/ RunDbt
    \/ SendAlertsToSlack

SpecMonitor == InitMonitor /\ [][NextMonitor]_vars

\* C20: a monitoring run invokes the deps step if and only if the dbt package is absent
\* or a forced package update was requested; with the package present and no update
\* forced deps is never invoked.
C20_DepsIffAbsentOrForced ==
    mon_pc # "idle" =>
        ("deps" \in Called <=> (~dbt_package_exists \/ run_args.force_update_dbt_packages))

\* a run with the package present and no forced update has gone through all its steps
\* without deps
C20_Witness ==
    /\ mon_pc = "done"
    /\ dbt_package_exists
    /\ ~run_args.force_update_dbt_packages
    /\ "deps" \notin Called
    /\ "run" \in Called

\* a run with the package absent has invoked deps first
C20_WitnessInvoked ==
    /\ mon_pc = "done"
    /\ ~dbt_package_exists
    /\ ~run_args.force_update_dbt_packages
    /\ Len(calls) > 1
    /\ calls[1].call = "deps"

\* the deps step of the run has reported a failure
DepsFailed == mon_pc = "done" /\ calls # <<>> /\ calls[Len(calls)].call = "deps"

\* a monitoring configuration exists in the warehouse: one of the three tables has rows
C21_ConfigurationInWarehouse ==
    \E t \in ConfigurationTables :
       configuration_rows[t] # MissingTable /\ configuration_rows[t] > 0

\* C21: a run whose deps step did not fail writes the monitoring configuration and
\* invokes seed if and only if no configuration exists in the warehouse or a reload was
\* requested; with a configuration and no reload seed is never invoked.
C21_SeedIffNoConfigurationOrReload ==
    LET needed == ~C21_ConfigurationInWarehouse \/ run_args.reload_monitoring_configuration
    IN /\ (mon_pc \notin {"idle", "configuration"} /\ ~DepsFailed) =>
             /\ "seed" \in Called <=> needed
             /\ "write_configuration" \in Called <=> needed
       /\ (mon_pc # "idle" /\ ~needed) => "seed" \notin Called
       /\ \A i \in 1..Len(calls) :
             calls[i].call = "seed" => i > 1 /\ calls[i - 1].call = "write_configuration"

\* a run that found rows in one configuration table only, and no reload, has gone through
\* all its steps without seed
C21_Witness ==
    /\ mon_pc = "done"
    /\ configuration_rows[MONITORING_COLUMNS_CONFIGURATION] = 1
    /\ configuration_rows[MONITORING_SCHEMAS_CONFIGURATION] = MissingTable
    /\ configuration_rows[MONITORING_TABLES_CONFIGURATION] = 0
    /\ ~run_args.reload_monitoring_configuration
    /\ "seed" \notin Called
    /\ "run" \in Called

\* a run without configuration in the warehouse has seeded it
C21_WitnessSeeded ==
    /\ mon_pc = "done"
    /\ ~C21_ConfigurationInWarehouse
    /\ ~run_args.reload_monitoring_configuration
    /\ "seed" \in Called
    /\ "run" \in Called

\* C22: when every step succeeds the run invokes snapshot and then the dbt run step,
\* for every combination of the flags and of the package presence; dbt run gets the
\* observability package as model and the caller's full-refresh flag, and comes only
\* after snapshot.
C22_SnapshotThenRun ==
    /\ mon_pc = "alerts" =>
          /\ Len(calls) >= 2
          /\ calls[Len(calls) - 1].call = "snapshot"
          /\ calls[Len(calls)].call = "run"
    /\ \A j \in 1..Len(calls) :
          calls[j].call = "run" =>
             /\ calls[j].arg = [model |-> "elementary_observability",
                                full_refresh |-> run_args.dbt_full_refresh]
             /\ \E i \in 1..(j - 1) : calls[i].call = "snapshot"
             /\ Cardinality({k \in 1..Len(calls) : calls[k].call \in {"snapshot", "run"}}) = 2

\* every step of a run with full refresh has succeeded
C22_Witness ==
    /\ mon_pc = "alerts"
    /\ run_args.dbt_full_refresh
    /\ dbt_package_exists
    /\ ~run_args.force_update_dbt_packages
    /\ "seed" \in Called

(***************************************************************************)
(* The edits of single statements: the query log of Spec with statements    *)
(* that only read, statements that only write, and a query that writes a     *)
(* table and then drops its source                                          *)
(***************************************************************************)
TAS == Table("s", "a")             \* the table of TA, with its bare schema

FrameStatements ==
    {Renames(TA, TAS), Renames(TAS, TB),
     Statement(<<>>, <<>>, {TA}, {TA}, {TC}), Statement(<<>>, <<>>, {TA, TB}, {TA, TB}, {TC}),
     Statement(<<>>, <<>>, {TA, TAS}, {TA}, {TC}),
     Statement(<<>>, <<>>, {TA}, {}, {}), Statement(<<>>, <<>>, {TA, TB}, {}, {}),
     Statement(<<>>, <<>>, {TX}, {}, {}),
     Writes({}, {TA}), Writes({}, {TB, TC}), Writes({}, {TX}),
     Statement(<<TA>>, <<>>, {TB}, {}, {TC}),
     Statement(<<>>, <<<<TA, TB>>>>, {TA}, {}, {TC})}

FrameEntries ==
    EditEntries
    \cup {Entry(<<st>>, "db", "s", 100) : st \in FrameStatements}
    \cup {Entry(<<Writes({TB}, {TA}), Drops(<<TB>>)>>, "db", "s", 100),
          Entry(<<Drops(<<TB>>), Writes({TB}, {TA})>>, "db", "s", 100),
          Entry(<<Writes({TB}, {TA}), Drops(<<TB>>), Writes({TB}, {TC})>>, "db", "s", 100),
          Entry(<<Writes({TA}, {TB}), Writes({TB}, {TC}), Writes({TA}, {TC})>>,
                "db", "s", 100)}

MaxEditQueries == 2

NextEdit == Ingest(FrameEntries, MaxEditQueries)

SpecEdit == Init /\ [][NextEdit]_vars

\* the one statement of the entry has neither drops nor renames
IsReadWrite(op) ==
    SingleStatement(op) /\ op.query[1].drop = <<>> /\ op.query[1].rename = <<>>

\* the graph at the start of the write phase of the one statement of the entry: the
\* graph the statement found, after the drops and the renames of the statement
BeforeWrite(op) ==
    RenameNodes(RemoveNodes(Graph, op.query[1].drop, op.qc), op.query[1].rename, op.qc)

\* C23: a statement with in-scope sources S and in-scope targets T, both non-empty,
\* leaves every member of S and T a vertex and every pair of S x T an edge, adds
\* nothing else and removes nothing that was there before its write phase.
C23_WriteAddsSourcesTimesTargets ==
    [][(SingleStatement(last') /\ C16_Sources(last') # {} /\ C16_Targets(last') # {}) =>
          LET S == C16_Sources(last')
              T == C16_Targets(last')
              before == BeforeWrite(last')
          IN /\ nodes' = before.nodes \cup S \cup T
             /\ edges' = before.edges \cup (S \X T)
             /\ IsReadWrite(last') =>
                   /\ nodes' = nodes \cup S \cup T
                   /\ edges' = edges \cup (S \X T)]_vars

\* a statement with two in-scope sources has been ingested into a graph that had an
\* edge of its own
C23_Witness ==
    /\ IsReadWrite(last)
    /\ Cardinality(C16_Sources(last)) = 2
    /\ C16_Targets(last) # {}
    /\ (C16_Sources(last) \X C16_Targets(last)) \subseteq edges
    /\ edges \ (C16_Sources(last) \X C16_Targets(last)) # {}

\* C24: with showIsolatedNodes disabled a statement without drops or renames whose
\* in-scope tables are all sources, or all targets, changes no vertex, edge, title or
\* catalog entry, also when the tables are vertices already.
C24_OneSidedStatementIsNoOp ==
    [][(/\ ~show_isolated_nodes
        /\ IsReadWrite(last')
        /\ (C16_Sources(last') = {} \/ C16_Targets(last') = {})) =>
          UNCHANGED <<nodes, edges, attr, catalog>>]_vars

\* a statement that only writes tables which are vertices has been ingested, isolated
\* vertices not being shown
C24_Witness ==
    /\ ~show_isolated_nodes
    /\ IsReadWrite(last)
    /\ C16_Sources(last) = {}
    /\ C16_Targets(last) # {}
    /\ C16_Targets(last) \subseteq nodes

\* a statement that only reads a table which is a vertex has been ingested, isolated
\* vertices not being shown
C24_WitnessSources ==
    /\ ~show_isolated_nodes
    /\ IsReadWrite(last)
    /\ C16_Targets(last) = {}
    /\ C16_Sources(last) # {}
    /\ C16_Sources(last) \subseteq nodes

\* the samples of a key of the catalog, none for a key the catalog does not hold
VolumeOf(cat, key) == IF key \in DOMAIN cat THEN cat[key].volume ELSE <<>>
UpdateTimesOf(cat, key) == IF key \in DOMAIN cat THEN cat[key].update_times ELSE <<>>
TitleOf(a, n) == IF n \in DOMAIN a THEN a[n].title ELSE Absent

\* C25: with showIsolatedNodes enabled a sources-only statement makes each in-scope
\* source a vertex and creates or changes no title and no catalog entry; a targets-only
\* statement makes each in-scope target a vertex, sets its title to the rendering of the
\* statement and appends one sample to its catalog entry; neither changes the edges.
C25_IsolatedNodesAreAdded ==
    [][(show_isolated_nodes /\ IsReadWrite(last')) =>
          LET S == C16_Sources(last')
              T == C16_Targets(last')
          IN /\ (S # {} /\ T = {}) =>
                   /\ nodes' = nodes \cup S
                   /\ edges' = edges
                   /\ catalog' = catalog
                   /\ \A n \in nodes' : TitleOf(attr', n) = TitleOf(attr, n)
             /\ (T # {} /\ S = {}) =>
                   /\ nodes' = nodes \cup T
                   /\ edges' = edges
                   /\ \A n \in nodes' \ T : TitleOf(attr', n) = TitleOf(attr, n)
                   /\ DOMAIN catalog' = DOMAIN catalog \cup T
                   /\ \A k \in DOMAIN catalog \ T : catalog'[k] = catalog[k]
                   /\ \A t \in T :
                         /\ attr'[t].title = ToHtml(last'.qc)
                         /\ catalog'[t].volume
                               = Append(VolumeOf(catalog, t), last'.qc.query_volume)
                         /\ catalog'[t].update_times
                               = Append(UpdateTimesOf(catalog, t),
                                        QueryTimeToStr(last'.qc.query_time))
                         /\ catalog'[t].last_html = ToHtml(last'.qc)]_vars

\* a targets-only statement has written a table that had a sample, isolated vertices
\* being shown
C25_Witness ==
    /\ show_isolated_nodes
    /\ IsReadWrite(last)
    /\ C16_Sources(last) = {}
    /\ \E t \in C16_Targets(last) :
          t \in nodes /\ t \in DOMAIN catalog /\ Len(catalog[t].volume) = 2

\* a sources-only statement has added a vertex without a title, isolated vertices being
\* shown
C25_WitnessSources ==
    /\ show_isolated_nodes
    /\ IsReadWrite(last)
    /\ C16_Targets(last) = {}
    /\ last.added # {}
    /\ \A n \in last.added : attr[n].title = Absent /\ n \notin DOMAIN catalog

IsPrefix(p, q) == Len(p) <= Len(q) /\ SubSeq(q, 1, Len(p)) = p

\* the names the statements of the entry drop, rename or rename onto
DroppedOrRenamed(op) ==
    UNION {{QualifiedBy(op, op.query[i].drop[j]) : j \in 1..Len(op.query[i].drop)}
           \cup UNION {{QualifiedBy(op, op.query[i].rename[j][1]),
                        QualifiedBy(op, op.query[i].rename[j][2])} :
                           j \in 1..Len(op.query[i].rename)} :
           i \in 1..Len(op.query)}

\* the targets the one statement of the entry gives attributes to
Written(op) ==
    IF C16_Sources(op) # {} \/ show_isolated_nodes THEN C16_Targets(op) ELSE {}

\* C26: the sample history of a catalog key is append-only: a statement that gives
\* attributes to the target T appends exactly one (volume, timestamp) pair to the history
\* of T and sets its last rendered detail to its own rendering; unless the entry drops
\* T or renames from or onto T the earlier history of T is a prefix of the later one;
\* the volumes and the timestamps of a key are always equally many.
C26_HistoryIsAppendOnly ==
    [][/\ \A k \in DOMAIN catalog' :
             Len(catalog'[k].volume) = Len(catalog'[k].update_times)
       /\ IsIngest(last') =>
             \A k \in DOMAIN catalog \ DroppedOrRenamed(last') :
                 /\ k \in DOMAIN catalog'
                 /\ IsPrefix(catalog[k].volume, catalog'[k].volume)
                 /\ IsPrefix(catalog[k].update_times, catalog'[k].update_times)
       /\ SingleStatement(last') =>
             LET before == BeforeWrite(last').catalog
             IN /\ \A T \in Written(last') :
                       /\ T \in DOMAIN catalog'
                       /\ catalog'[T].volume
                             = Append(VolumeOf(before, T), last'.qc.query_volume)
                       /\ catalog'[T].update_times
                             = Append(UpdateTimesOf(before, T),
                                      QueryTimeToStr(last'.qc.query_time))
                       /\ catalog'[T].last_html = ToHtml(last'.qc)
                       /\ IsReadWrite(last') =>
                             /\ VolumeOf(before, T) = VolumeOf(catalog, T)
                             /\ UpdateTimesOf(before, T) = UpdateTimesOf(catalog, T)
                /\ \A k \in DOMAIN catalog' \ Written(last') :
                       k \in DOMAIN before /\ catalog'[k] = before[k]]_vars

\* a statement with in-scope sources has written a table a second time, from another
\* execution context
C26_Witness ==
    /\ IsReadWrite(last)
    /\ C16_Sources(last) # {}
    /\ \E T \in C16_Targets(last) :
          /\ T \in DOMAIN catalog
          /\ Len(catalog[T].volume) = 2
          /\ catalog[T].update_times[1] # catalog[T].update_times[2]
          /\ catalog[T].last_html = ToHtml(last.qc)

\* the name of a vertex after the rename of old_node to new_node
Renamed(n, old_node, new_node) == IF n = old_node THEN new_node ELSE n

\* C27: renaming a vertex old onto another vertex new merges them: old is no vertex
\* afterwards, the edges are the former edges with old replaced by new, so that an edge
\* between old and new becomes a self-loop of new and edges not incident to old stay; a
\* catalog entry of old replaces the entry of new, and without one the entry of new stays.
C27_RenameOntoVertexMerges ==
    [][\A old \in Refs \cup {TAS}, new \in Refs \cup {TAS} :
          LET o == QualifiedBy(last', old)
              n == QualifiedBy(last', new)
          IN (/\ IsRenameOf(last', old, new)
              /\ o # None /\ n # None /\ o # n
              /\ o \in nodes /\ n \in nodes) =>
                /\ nodes' = nodes \ {o}
                /\ edges' = {<<Renamed(e[1], o, n), Renamed(e[2], o, n)>> : e \in edges}
                /\ {e[2] : e \in {f \in edges' : f[1] = n}}
                      = {Renamed(x, o, n) : x \in Successors(Graph, o) \cup Successors(Graph, n)}
                /\ {e[1] : e \in {f \in edges' : f[2] = n}}
                      = {Renamed(x, o, n) :
                            x \in Predecessors(Graph, o) \cup Predecessors(Graph, n)}
                /\ (<<o, n>> \in edges \/ <<n, o>> \in edges) => <<n, n>> \in edges'
                /\ {e \in edges : ~Incident(e, o)} \subseteq edges'
                /\ IF o \in DOMAIN catalog
                   THEN /\ DOMAIN catalog' = (DOMAIN catalog \ {o}) \cup {n}
                        /\ catalog'[n] = catalog[o]
                        /\ \A k \in DOMAIN catalog' \ {n} : catalog'[k] = catalog[k]
                   ELSE catalog' = catalog]_vars

\* a vertex with a catalog entry has been renamed onto its successor, which had an entry
\* of its own
C27_Witness ==
    \E old \in Refs, new \in Refs :
       /\ IsRenameOf(last, old, new)
       /\ QualifiedBy(last, new) # None
       /\ last.removed = {QualifiedBy(last, old)}
       /\ last.added = {}
       /\ <<QualifiedBy(last, new), QualifiedBy(last, new)>> \in edges
       /\ QualifiedBy(last, new) \in DOMAIN catalog
       /\ catalog[QualifiedBy(last, new)].update_times = <<QueryTimeToStr(1)>>
       /\ n_queries = 2

\* C28: a rename whose old name is no vertex, or whose old or new name is excluded, or
\* whose names qualify to the same identifier, changes neither the graph nor the catalog.
C28_RenameWithoutEffect ==
    [][\A old \in Refs \cup {TAS}, new \in Refs \cup {TAS} :
          LET o == QualifiedBy(last', old)
              n == QualifiedBy(last', new)
          IN (/\ IsRenameOf(last', old, new)
              /\ (o = None \/ n = None \/ o = n \/ o \notin nodes)) =>
                UNCHANGED <<nodes, edges, attr, catalog>>]_vars

\* a vertex with a catalog entry has been renamed to an excluded table
C28_Witness ==
    \E old \in Refs :
       /\ IsRenameOf(last, old, TX)
       /\ QualifiedBy(last, TX) = None
       /\ QualifiedBy(last, old) \in nodes \cap DOMAIN catalog

\* a vertex has been renamed to another reference to the same table
C28_WitnessSameIdentifier ==
    /\ IsRenameOf(last, TA, TAS)
    /\ QualifiedBy(last, TA) # None
    /\ QualifiedBy(last, TA) = QualifiedBy(last, TAS)
    /\ QualifiedBy(last, TA) \in nodes \cap DOMAIN catalog

\* C29: the drop of a table that is excluded, or that is no vertex, changes no vertex,
\* edge, title or catalog entry.
C29_DropWithoutEffect ==
    [][\A t \in Refs :
          (/\ IsDropOf(last', t)
           /\ (QualifiedBy(last', t) = None \/ QualifiedBy(last', t) \notin nodes)) =>
             UNCHANGED <<nodes, edges, attr, catalog>>]_vars

\* a table that is no vertex and has a catalog entry has been dropped, the graph having
\* vertices
C29_Witness ==
    \E t \in Refs :
       /\ IsDropOf(last, t)
       /\ QualifiedBy(last, t) # None
       /\ QualifiedBy(last, t) \notin nodes
       /\ QualifiedBy(last, t) \in DOMAIN catalog
       /\ nodes # {}

\* an excluded table has been dropped, the graph having vertices
C29_WitnessExcluded ==
    /\ IsDropOf(last, TX)
    /\ QualifiedBy(last, TX) = None
    /\ edges # {}

\* the vertices and the edges the write phase of the one statement of the entry adds
C30_AddedNodes(op) ==
    IF (C16_Sources(op) # {} /\ C16_Targets(op) # {}) \/ show_isolated_nodes
    THEN C16_Sources(op) \cup C16_Targets(op) ELSE {}
C30_AddedEdges(op) == C16_Sources(op) \X C16_Targets(op)

\* C30: a statement applies its drops, then its renames, then its sources and targets,
\* and the statements of a query are applied in their order: a table the statement drops
\* and writes is present afterwards with the edges of the statement only and a history of
\* one sample; after a rename of the vertex A to B the former edges of A are on B, next to
\* the edges the statement adds, which are on the names the statement reads and writes;
\* a query that writes a table from T and then drops T leaves no T, and a query that
\* drops T and then reads it leaves T.
C30_DropsRenamesWritesInOrder ==
    [][/\ (SingleStatement(last') /\ last'.query[1].rename = <<>>) =>
             \A j \in 1..Len(last'.query[1].drop) :
                 LET d == QualifiedBy(last', last'.query[1].drop[j])
                 IN d # None =>
                      /\ d \in nodes' <=> d \in C30_AddedNodes(last')
                      /\ {e \in edges' : Incident(e, d)}
                            = {e \in C30_AddedEdges(last') : Incident(e, d)}
                      /\ (d \in nodes /\ d \in Written(last')) =>
                            catalog'[d].volume = <<last'.qc.query_volume>>
       /\ \A old \in Refs, new \in Refs :
             LET o == QualifiedBy(last', old)
                 n == QualifiedBy(last', new)
             IN (/\ SingleStatement(last')
                 /\ last'.query[1].drop = <<>>
                 /\ last'.query[1].rename = <<<<old, new>>>>
                 /\ o # None /\ n # None /\ o # n /\ o \in nodes) =>
                   /\ nodes' = (nodes \ {o}) \cup {n} \cup C30_AddedNodes(last')
                   /\ edges' = {<<Renamed(e[1], o, n), Renamed(e[2], o, n)>> : e \in edges}
                                  \cup C30_AddedEdges(last')
       /\ \A source \in InRefs, target \in InRefs :
             LET T == QualifiedBy(last', source)
             IN (IsIngest(last') /\ T # None /\ QualifiedBy(last', target) \notin {None, T}) =>
                  /\ last'.query = <<Writes({source}, {target}), Drops(<<source>>)>>
                        => T \notin nodes'
                  /\ last'.query = <<Drops(<<source>>), Writes({source}, {target})>>
                        => T \in nodes' /\ <<T, QualifiedBy(last', target)>> \in edges']_vars

\* a statement has dropped a vertex that had an edge, which left its neighbour isolated,
\* and has written it again from an in-scope source
C30_Witness ==
    /\ SingleStatement(last)
    /\ last.query[1] = Statement(<<TB>>, <<>>, {TA}, {}, {TB})
    /\ QualifiedBy(last, TB) \in nodes
    /\ {e \in edges : Incident(e, QualifiedBy(last, TB))}
          = {<<QualifiedBy(last, TA), QualifiedBy(last, TB)>>}
    /\ catalog[QualifiedBy(last, TB)].update_times = <<QueryTimeToStr(2)>>
    /\ last.removed = {QualifiedBy(last, TC)}

\* a statement has renamed the vertex A to B and has read B while writing C
C30_WitnessRename ==
    /\ SingleStatement(last)
    /\ last.query[1] = Statement(<<>>, <<<<TA, TB>>>>, {TB}, {}, {TC})
    /\ last.removed = {QualifiedBy(last, TA)}
    /\ <<QualifiedBy(last, TB), QualifiedBy(last, TC)>> \in edges
    /\ Cardinality(edges) >= 2

\* the identifiers of the tables of a set, without the excluded ones
C31_Ids(op, tables) == {QualifiedBy(op, t) : t \in tables} \ {None}

\* C31: a table in both the read set and the intermediate set of a statement is no
\* source of it: unless another table of the statement has the same identifier it gets no
\* vertex and no outgoing edge from the statement, the vertices and edges the statement
\* adds are those of read minus intermediate and of write, and a statement whose read
\* tables are all intermediate is handled as one without sources.
C31_IntermediateIsNoSource ==
    [][IsReadWrite(last') =>
          LET st == last'.query[1]
              kept == C31_Ids(last', st.read \ st.intermediate)
              written == C31_Ids(last', st.write)
          IN /\ \A q \in C31_Ids(last', st.read \cap st.intermediate) \ (kept \cup written) :
                   /\ q \in nodes' => q \in nodes
                   /\ \A e \in edges' \ edges : e[1] # q
             /\ (nodes' \ nodes) \subseteq (kept \cup written)
             /\ (edges' \ edges) \subseteq (kept \X written)
             /\ (kept # {} /\ written # {}) => (kept \X written) \subseteq edges'
             /\ (st.read \subseteq st.intermediate) =>
                   /\ edges' = edges
                   /\ nodes' = IF show_isolated_nodes THEN nodes \cup written ELSE nodes]_vars

\* a statement has read a common table expression and a table and has written a third
\* table: the expression is no vertex
C31_Witness ==
    /\ IsReadWrite(last)
    /\ last.query[1] = Statement(<<>>, <<>>, {TA, TB}, {TA}, {TC})
    /\ QualifiedBy(last, TA) # None
    /\ QualifiedBy(last, TA) \notin nodes
    /\ <<QualifiedBy(last, TB), QualifiedBy(last, TC)>> \in edges

\* a statement whose read tables are all common table expressions has written a table,
\* isolated vertices being shown
C31_WitnessAllIntermediate ==
    /\ IsReadWrite(last)
    /\ last.query[1] = Statement(<<>>, <<>>, {TA, TB}, {TA, TB}, {TC})
    /\ show_isolated_nodes
    /\ nodes = {QualifiedBy(last, TC)}

\* the title text of a vertex, the empty text for a vertex without title
TitleText(a, n) == IF a[n].title = Absent THEN "" ELSE a[n].title

\* C32: after a successful selection, in each of the three directions, the selected
\* vertex has the selected highlight colour and its title is the selected-node marker
\* followed by the title the vertex had in the graph before the selection.
C32_SelectedTitleKeepsPrior ==
    [][\A direction \in Directions :
          Selected(last', direction) =>
             LET v == last'.resolved
             IN /\ v \in nodes'
                /\ attr'[v].color = SELECTED_NODE_COLOR
                /\ attr'[v].title = SELECTED_NODE_TITLE \o TitleText(attr, v)]_vars

\* C33: the freshness overlay pass before rendering changes no ingested data: the
\* catalog, with its keys, sample sequences and last rendered details, and the vertices
\* and edges of the graph are after the pass what they were before it, also when the
\* graph has vertices without catalog entry.
C33_OverlayKeepsIngestedData ==
    [][last'.op = "draw" =>
          /\ DOMAIN catalog' = DOMAIN catalog
          /\ \A k \in DOMAIN catalog :
                /\ catalog'[k].volume = catalog[k].volume
                /\ catalog'[k].update_times = catalog[k].update_times
                /\ catalog'[k].last_html = catalog[k].last_html
          /\ nodes' = nodes
          /\ edges' = edges]_vars

\* a graph with a vertex that has four samples and a vertex without catalog entry has
\* been through the overlay pass
C33_Witness ==
    /\ pc = "drawn"
    /\ nodes \ DOMAIN catalog # {}
    /\ \E n \in nodes \cap DOMAIN catalog :
          Len(catalog[n].volume) = 4 /\ Contains("<chart ", attr[n].title)

\* C34: schema resolution has three cases: an empty schema part becomes
\* database.schema of the ingestion context when both are known and stays unqualified
\* otherwise; a bare schema part becomes database.schemaPart when the ingestion database
\* is known and is cleared when it is not; a dotted schema part is left as it is.  The
\* simple name is never changed.
C34_SchemaResolutionCases ==
    [][last'.op = "qualify" =>
          LET database_name == last'.database_name
              schema_name == last'.schema_name
          IN /\ table_ref'.raw_name = table_ref.raw_name
             /\ table_ref.schema = DefaultSchema =>
                   table_ref'.schema
                      = IF database_name # None /\ schema_name # None
                        THEN database_name \o "." \o schema_name ELSE DefaultSchema
             /\ (table_ref.schema # DefaultSchema /\ ~Contains(".", table_ref.schema)) =>
                   table_ref'.schema
                      = IF database_name # None
                        THEN database_name \o "." \o table_ref.schema ELSE DefaultSchema
             /\ Contains(".", table_ref.schema) => table_ref'.schema = table_ref.schema]_vars

\* a reference with a bare schema has been resolved without ingestion database, by a
\* context that knows a schema: its schema is cleared
C34_Witness ==
    /\ last.op = "qualify"
    /\ last.count = 1
    /\ last.original.schema = "s"
    /\ last.database_name = None
    /\ last.schema_name = "t"
    /\ table_ref = Table(DefaultSchema, "a")

\* a reference with empty schema has been resolved to the database and schema of the
\* ingestion context
C34_WitnessEmpty ==
    /\ last.op = "qualify"
    /\ last.count = 1
    /\ last.original.schema = DefaultSchema
    /\ table_ref = Table("xx.t", "a")

(***************************************************************************)
(* The Table Qualifier under LineageGraph objects of different profile      *)
(* databases                                                                *)
(***************************************************************************)
ScopeDatabases == {"db", "default"}
ScopeTables == QualifyTables \cup {Table("xdb.s", "a")}

InitScope ==
    /\ show_isolated_nodes = FALSE
    /\ profile_database_name \in ScopeDatabases
    /\ profile_schema_name \in {None, "s"}
    /\ show_full_table_name \in BOOLEAN
    /\ nodes = {}
    /\ edges = {}
    /\ attr = EmptyDict
    /\ catalog = EmptyDict
    /\ n_queries = 0
    /\ pc = "ingest"
    /\ last = [op |-> "init"]
    /\ table_ref = NoTable
    /\ MonitorIdle

NextScope ==
    \/ NewTable(ScopeTables)
    \/ Qualify(QualifyDatabases, QualifySchemas, MaxQualifications)

SpecScope == InitScope /\ [][NextScope]_vars

\* C35: with a profile schema a table is included if and only if its resolved schema is
\* exactly profileDatabase.profileSchema; with a profile database only, if and only if
\* the profile database name occurs in the resolved schema, so that an unqualified table
\* in an unknown ingestion context is excluded; an included table is emitted as the last
\* dot-segment of its qualified name, or as the qualified name under showFullTableNames.
C35_InclusionTest ==
    [][last'.op = "qualify" =>
          LET resolved == table_ref'.schema
              included ==
                  IF profile_schema_name # None
                  THEN resolved = profile_database_name \o "." \o profile_schema_name
                  ELSE Contains(profile_database_name, resolved)
          IN /\ last'.result # None <=> included
             /\ included =>
                   last'.result = IF show_full_table_name
                                  THEN resolved \o "." \o table_ref'.raw_name
                                  ELSE table_ref'.raw_name
             /\ (/\ profile_schema_name = None
                 /\ table_ref.schema = DefaultSchema
                 /\ (last'.database_name = None \/ last'.schema_name = None)) =>
                   last'.result = None]_vars

\* the steps of a run in their order, and the calls of each
RunSteps == <<"deps", "seed", "snapshot", "run", "alerts">>
StepOf(call) ==
    IF call = "write_configuration" THEN "seed"
    ELSE IF call \in {"select_new_alerts", "send_to_slack", "update_sent_alerts"}
    THEN "alerts" ELSE call
StepIndex(step) == CHOOSE i \in 1..Len(RunSteps) : RunSteps[i] = step

\* the last step of the run has reported a failure
StepFailed(op) == op.op = "step" /\ ~op.ok

\* C36: a run stops at the first step that reports failure, deps, seed, snapshot or the
\* dbt run step: the call of that step is the last call of the run, no later step is
\* invoked, and no alert is queried, sent to Slack or marked as sent.
C36_RunStopsAtFirstFailure ==
    [][/\ StepFailed(last') =>
             /\ mon_pc' = "done"
             /\ calls' # <<>>
             /\ calls'[Len(calls')].call = last'.step
             /\ \A i \in 1..Len(calls') :
                   StepIndex(StepOf(calls'[i].call)) <= StepIndex(last'.step)
             /\ alerts' = alerts
       /\ StepFailed(last) => UNCHANGED <<mon_pc, calls, alerts>>
       /\ \A i \in 1..Len(calls') :
             StepOf(calls'[i].call) = "alerts" =>
                /\ last'.op = "step" /\ last'.step = "run" /\ last'.ok
                /\ \E j \in 1..(i - 1) : calls'[j].call = "run"]_vars

\* the dbt run step has failed in a run with a webhook and an unsent alert, after deps,
\* seed and snapshot
C36_Witness ==
    /\ StepFailed(last)
    /\ last.step = "run"
    /\ mon_pc = "done"
    /\ slack_webhook # None
    /\ \E id \in DOMAIN alerts : ~alerts[id]
    /\ {"deps", "seed", "snapshot"} \subseteq Called

\* the snapshot step has failed
C36_WitnessSnapshot ==
    /\ StepFailed(last)
    /\ last.step = "snapshot"
    /\ mon_pc = "done"
    /\ slack_webhook # None

\* the calls the step from the unprimed to the primed state has made
NewCalls == SubSeq(calls', Len(calls) + 1, Len(calls'))

\* the arguments of the calls of one name among cs, in their order
RECURSIVE ArgsOf(_, _)
ArgsOf(cs, name) ==
    IF cs = <<>> THEN <<>>
    ELSE IF Head(cs).call = name THEN <<Head(cs).arg>> \o ArgsOf(Tail(cs), name)
    ELSE ArgsOf(Tail(cs), name)

\* C37: the alert dispatch marks an alert as sent only after it was sent to Slack in the
\* same run: the ids passed to the update are the unsent alerts that were read and sent,
\* in reading order, and the update follows the sends; without webhook no alert is read
\* or marked; without unsent alert no update is issued.
C37_MarkedOnlyAfterSent ==
    [][(mon_pc = "alerts" /\ mon_pc' = "done") =>
          LET unsent == {id \in DOMAIN alerts : ~alerts[id]}
              sent == ArgsOf(NewCalls, "send_to_slack")
              updates == ArgsOf(NewCalls, "update_sent_alerts")
          IN IF slack_webhook = None
             THEN NewCalls = <<>> /\ alerts' = alerts
             ELSE /\ NewCalls # <<>>
                  /\ NewCalls[1].call = "select_new_alerts"
                  /\ Len(ArgsOf(NewCalls, "select_new_alerts")) = 1
                  /\ {sent[i] : i \in 1..Len(sent)} = unsent
                  /\ Len(sent) = Cardinality(unsent)
                  /\ IF unsent = {}
                     THEN updates = <<>> /\ alerts' = alerts
                     ELSE /\ updates = <<sent>>
                          /\ NewCalls[Len(NewCalls)].call = "update_sent_alerts"
                          /\ \A id \in DOMAIN alerts :
                                alerts'[id] = (alerts[id] \/ id \in unsent)]_vars

\* a run has read, sent and marked two unsent alerts
C37_Witness ==
    /\ mon_pc = "done"
    /\ \E i \in 1..Len(calls) :
          calls[i].call = "update_sent_alerts" /\ Len(calls[i].arg) = 2
    /\ \A id \in DOMAIN alerts : alerts[id]

\* a run has found no unsent alert and has issued no update
C37_WitnessNoUnsent ==
    /\ mon_pc = "done"
    /\ "select_new_alerts" \in Called
    /\ "update_sent_alerts" \notin Called

\* a run without webhook has read no alert although one is unsent
C37_WitnessNoWebhook ==
    /\ mon_pc = "done"
    /\ last = Step("run", TRUE)
    /\ slack_webhook = None
    /\ \E id \in DOMAIN alerts : ~alerts[id]
    /\ "select_new_alerts" \notin Called

(***************************************************************************)
(* SnowflakeQueryHistory._build_history_query                               *)
(* (lineage/snowflake_query_history.py).  A date is the number of its day;   *)
(* the method looks at start_date.date() and date.today() only.             *)
(***************************************************************************)
QUERY_HISTORY_SOURCE_INFORMATION_SCHEMA == "information_schema"
QUERY_HISTORY_SOURCE_ACCOUNT_USAGE == "account_usage"
INFO_SCHEMA_END_TIME_UP_TO_CURRENT_TIMESTAMP ==
    "end_time_range_end=>to_timestamp_ltz(current_timestamp())"
INFO_SCHEMA_END_TIME_UP_TO_PARAMETER == "end_time_range_end=>to_timestamp_ltz(:3)"
ACCOUNT_USAGE_END_TIME_UP_TO_CURRENT_TIMESTAMP == "end_time <= current_timestamp()"
ACCOUNT_USAGE_END_TIME_UP_TO_PARAMETER == "end_time <= :3"

\* timedelta(days=7)
INFORMATION_SCHEMA_DAYS == 7

\* no end_date
NoDate == -1

\* cls._include_end_date(end_date)
IncludeEndDate(end_date) == [include_end_date |-> end_date]

\* _build_history_query: the exception, or the end-time expression put into the query
\* and the bindings
BuildHistoryQuery(start_date, end_date, database_name, query_history_source, today) ==
    LET account_usage == query_history_source = QUERY_HISTORY_SOURCE_ACCOUNT_USAGE
    IN IF ~account_usage /\ start_date <= today - INFORMATION_SCHEMA_DAYS
       THEN [error |-> "ConfigError", end_time_range_end_expr |-> None, bindings |-> <<>>]
       ELSE IF end_date = NoDate
       THEN [error |-> None,
             end_time_range_end_expr |->
                 IF account_usage THEN ACCOUNT_USAGE_END_TIME_UP_TO_CURRENT_TIMESTAMP
                 ELSE INFO_SCHEMA_END_TIME_UP_TO_CURRENT_TIMESTAMP,
             bindings |-> <<[database_name |-> database_name],
                            [start_date |-> start_date]>>]
       ELSE [error |-> None,
             end_time_range_end_expr |->
                 IF account_usage THEN ACCOUNT_USAGE_END_TIME_UP_TO_PARAMETER
                 ELSE INFO_SCHEMA_END_TIME_UP_TO_PARAMETER,
             bindings |-> <<[database_name |-> database_name],
                            [start_date |-> start_date],
                            IncludeEndDate(end_date)>>]

\* the call of _build_history_query by _query_history_table, on the day `today`
BuildHistory(days, sources) ==
    /\ last.op = "init"
    /\ \E start_date \in days, end_date \in days \cup {NoDate}, today \in days,
          query_history_source \in sources :
          /\ start_date <= today
          /\ end_date = NoDate \/ start_date <= end_date
          /\ last' = [op |-> "history", start_date |-> start_date, end_date |-> end_date,
                      query_history_source |-> query_history_source, today |-> today,
                      result |-> BuildHistoryQuery(start_date, end_date, "db",
                                                   query_history_source, today)]
    /\ UNCHANGED <<config, nodes, edges, attr, catalog, n_queries, pc, table_ref,
                   monitor_vars>>

MaxDay == 9
HistoryDays == 0..MaxDay
HistorySources ==
    {QUERY_HISTORY_SOURCE_ACCOUNT_USAGE, QUERY_HISTORY_SOURCE_INFORMATION_SCHEMA, None}

NextHistory == BuildHistory(HistoryDays, HistorySources)

SpecHistory == Init /\ [][NextHistory]_vars

\* C40: building the history query fails with ConfigError only when the source is not
\* account_usage and the start date is more than 7 days before today, a start date of
\* exactly 7 days before today being accepted, and never for account_usage; on success
\* the query has the 2 bindings database and start, with the end bound at the current
\* timestamp, when no end date is given, and the 3 bindings database, start and
\* inclusive end otherwise.
C40_HistoryQueryFailsBeyondSevenDays ==
    last.op = "history" =>
       LET failed == last.result.error # None
           bindings == last.result.bindings
       IN /\ failed <=>
                /\ last.query_history_source # "account_usage"
                /\ last.today - last.start_date > 7
          /\ failed => last.result.error = "ConfigError"
          /\ (last.today - last.start_date = 7) => ~failed
          /\ ~failed =>
                /\ bindings[1] = [database_name |-> "db"]
                /\ bindings[2] = [start_date |-> last.start_date]
                /\ IF last.end_date = NoDate
                   THEN /\ Len(bindings) = 2
                        /\ Contains("current_timestamp()", last.result.end_time_range_end_expr)
                   ELSE /\ Len(bindings) = 3
                        /\ bindings[3] = IncludeEndDate(last.end_date)
                        /\ Contains(":3", last.result.end_time_range_end_expr)

(***************************************************************************)
(* Rendering of a selection: writes with different volumes, one            *)
(* filter_on_table, then draw_graph                                        *)
(***************************************************************************)
RenderTables == {"a", "b"}
RenderDepths == {Unbounded, 1}
MaxRenderQueries == 3

NextRender ==
    \/ Ingest(FreshEntries, MaxRenderQueries)
    \/ FilterOnTable(RenderTables, Directions, RenderDepths)
    \/ DrawGraph

SpecRender == InitSelect /\ [][NextRender]_vars

\* C39: after a selection followed by draw_graph the title of the selected vertex still
\* begins with the selected-node marker, and its colour is still the selected highlight
\* colour unless the vertex is flagged anomalous, with or without a catalog entry
C39_SelectedMarkSurvivesRendering ==
    [][(last.op = "filter" /\ last.error = None /\ last'.op = "draw") =>
          LET v == last.resolved
          IN /\ v \in nodes'
             /\ IsPrefix(SELECTED_NODE_TITLE, TitleText(attr', v))
             /\ \/ attr'[v].color = SELECTED_NODE_COLOR
                \/ /\ attr'[v].color = ANOMALY_COLOR
                   /\ v \in DOMAIN catalog
                   /\ VolumeTooLow(catalog[v].volume)]_vars

\* the part of C39 that the code keeps: a selected vertex without a catalog entry
C39_MarkSurvivesWithoutCatalogEntry ==
    [][(last.op = "filter" /\ last.error = None /\ last'.op = "draw"
          /\ last.resolved \notin DOMAIN catalog) =>
          LET v == last.resolved
          IN /\ v \in nodes'
             /\ IsPrefix(SELECTED_NODE_TITLE, TitleText(attr', v))
             /\ attr'[v].color = SELECTED_NODE_COLOR]_vars

\* a selection of a vertex with a catalog entry has been rendered
C39_RenderedSelectedWithEntry ==
    /\ pc = "drawn"
    /\ last.from = "filtered"
    /\ \E v \in nodes \cap DOMAIN catalog : attr[v].color = SELECTED_NODE_COLOR

(***************************************************************************)
(* Repeated selection: a log of ten writes over seven tables is ingested   *)
(* in its order, then filter_on_table is called, and called again on its   *)
(* own result                                                              *)
(***************************************************************************)
RT(i) == Table(DefaultSchema, "t" \o ToString(i))

\* INSERT INTO t<to> SELECT * FROM t<from>
ReselectWrite(from, to) == Entry(<<Writes({RT(from)}, {RT(to)})>>, "db", "s", 100)

ReselectLog ==
    <<ReselectWrite(6, 5), ReselectWrite(5, 2), ReselectWrite(4, 2), ReselectWrite(1, 5),
      ReselectWrite(2, 0), ReselectWrite(3, 4), ReselectWrite(2, 6), ReselectWrite(6, 3),
      ReselectWrite(1, 4), ReselectWrite(0, 1)>>

MaxReselectQueries == 10

\* the entry init_graph_from_query_list reaches next
ReselectNext == {ReselectLog[i] : i \in {n_queries + 1} \cap 1..Len(ReselectLog)}

ReselectTables == {"t5", "t2"}
\* depth_limit=0 is left out: what it selects depends on the networkx release, which is
\* the same in both calls
ReselectDepths == {Unbounded} \cup 1..MaxDepth

NextReselect ==
    \/ Ingest(ReselectNext, MaxReselectQueries)
    \/ /\ n_queries = Len(ReselectLog)
       /\ FilterOnTableFrom({"ingest", "filtered"}, ReselectTables, Directions,
                            ReselectDepths)

SpecReselect == InitSelect /\ [][NextReselect]_vars

\* a second call of filter_on_table with the arguments of the first
Reselected(op, op2) ==
    /\ op.op = "filter" /\ op.error = None
    /\ op2.op = "filter"
    /\ op2.table = op.table /\ op2.direction = op.direction /\ op2.depth = op.depth

\* C38: the same selection applied to its own result yields the same vertex set and edge
\* set and the same title and colour on the selected vertex, and no selection changes
\* the catalog
C38_SelectionIsIdempotent ==
    [][/\ last'.op = "filter" => catalog' = catalog
       /\ Reselected(last, last') =>
             /\ last'.error = None
             /\ nodes' = nodes
             /\ edges' = edges
             /\ attr'[last.resolved] = attr[last.resolved]]_vars

\* the part of C38 that the code keeps: the catalog under every selection, and the
\* vertex set and the selected vertex's title and colour under a repeated one
C38_SelectionKeepsCatalogAndVertices ==
    [][/\ last'.op = "filter" => catalog' = catalog
       /\ Reselected(last, last') =>
             /\ last'.error = None
             /\ nodes' = nodes
             /\ edges' \subseteq edges
             /\ attr'[last.resolved] = attr[last.resolved]]_vars

\* the part of C38 that the code keeps: a repeated upstream or downstream selection
C38_OneDirectionIsIdempotent ==
    [][(Reselected(last, last') /\ last.direction # BOTH_DIRECTIONS) =>
          /\ nodes' = nodes
          /\ edges' = edges
          /\ attr'[last.resolved] = attr[last.resolved]]_vars

\* the selection of t5 in both directions that keeps all ten edges of the log
C38_SelectedWholeLog ==
    /\ last.op = "filter" /\ last.error = None
    /\ last.table = "t5" /\ last.direction = BOTH_DIRECTIONS /\ last.depth = Unbounded
    /\ Cardinality(edges) = 10

====
